---- MODULE Spec2Model ----
(***************************************************************************)
(* State-machine model of the meap messaging core: the sliding-window      *)
(* rate limiter, the circuit breakers, Connection::send, the security      *)
(* manager's key rotation and the stream sender/receiver.                  *)
(*                                                                         *)
(* Time is a discrete clock `now` (one unit per Tick).  Every component    *)
(* has its own specification; the variables of the other components stay   *)
(* at their constructed values.                                            *)
(***************************************************************************)
EXTENDS Integers, Sequences, FiniteSets, TLC

\* ------------------------------------------------------------------ bounds
\* Last instant of the discrete clock.
MaxTime == 4
\* Largest RateLimitConfig.max_requests drawn at construction.
MaxRequests == 2
\* Largest RateLimitConfig.window_size drawn at construction.
MaxWindow == 2
\* Largest threshold a stand-alone CircuitBreaker is constructed with.
MaxThreshold == 3
\* Most record_failure calls counted on one breaker.
MaxFailures == 4
\* Largest ConnectionConfig.buffer_size drawn at construction.
MaxBuffer == 2
\* Most Connection::send calls made on the connection.
MaxSends == 5
\* Largest key_rotation_interval drawn for a security manager.
MaxInterval == 2
\* Most results of encrypt kept for later decrypt calls.
MaxSealed == 1
\* Most chunks one StreamSender is asked to send.
MaxChunks == 3
\* Most handlers registered with one ProtocolHandler.
MaxHandlers == 3
\* Largest max_reconnects a reconnecting Connection is constructed with.
MaxReconnects == 2
\* Most sockets add_connection opens.
MaxConns == 3
\* Most frames the reader tasks take from their sockets.
MaxFrames == 3
\* The reset_timeout of the circuit-breaker contract (the connection's breaker has no such field).
ResetTimeout == 2
\* The most consecutive unhealthy reports counted for a node.
MaxErrors == 2
\* The largest messages_sent of a connection given to the balancer.
MaxLoad == 1
\* Most connections established while the pool's admission is followed.
MaxAdds == 2

\* Largest requests_per_minute of a deepseek RateLimiter.
MaxPerMinute == 14
\* Largest max_parallel_requests of a deepseek RateLimiter.
MaxParallel == 2
\* Most RequestGuards ever handed out by acquire.
MaxGuards == 3
\* Most requests recorded by record_request.
MaxRecorded == 2

\* Longest data given to StreamHandler::create_stream_message, and largest chunk size.
MaxData == 3
\* Most create_stream_message calls on one StreamHandler.
MaxStreams == 2

\* Client ids presented to the rate limiter.
Clients == {"c1", "c2"}
\* Tasks that call RateLimiter::check_request concurrently.
Callers == {"t1", "t2"}
\* The client id the concurrent tasks compete for.
RaceClients == {"c1"}
\* The one task that makes its calls one after the other.
SeqCallers == {"t1"}

VARIABLES
    now,            \* the clock read by Instant::now()
    rl_config,      \* RateLimiter.config: [max_requests, window_size]
    requests,       \* RateLimiter.requests: client id -> Vec<Instant>
    rl_lock,        \* holder of requests' write lock, or "free"
    call,           \* per task: the check_request call it is in
    janitor,        \* the task running RateLimiter::cleanup
    rl_recording,   \* whether the admissions are being recorded in `admitted`
    admitted,       \* history: per client, the timestamps of the calls that returned Ok
    breaker,        \* a stand-alone connection::CircuitBreaker
    streak,         \* history: record_failure calls since construction or the last record_success
    conn,           \* a Connection: circuit_breaker, metrics, status, last_heartbeat
    conn_config,    \* Connection.config: [buffer_size]
    outbound,       \* the frames in the mpsc channel between Connection.tx and the writer's rx
    rx_open,        \* whether the writer task still holds the channel's receiver
    wire,           \* the frames the writer task has written to the transport
    sender,         \* the Connection::send call in progress
    last_send,      \* what the last finished Connection::send returned
    enqueued,       \* history: the frames Connection::send put on the channel, in order
    ds_config,      \* deepseek CircuitBreaker.config
    ds,             \* deepseek CircuitBreaker: state, failures, half-open counters, last_opened
    ds_next_tick,   \* when the recovery task's interval fires next
    sec_config,     \* SecurityManager.config: encrypt_messages, key_rotation_interval
    current_key,    \* SecurityManager.current_key
    previous_key,   \* SecurityManager.previous_key
    next_rotation,  \* when the rotation task's interval fires next
    sealed,         \* history: what encrypt returned, with the nonce and the time of the call
    last_decrypt,   \* what the last decrypt returned, the age of its input, and whether
                    \* every rotation due by then had been made
    st_config,      \* buffer sizes given to StreamSender::new and StreamReceiver::new
    ssender,        \* StreamSender: stream_id, chunk_id, and the send_chunk in progress
    ss_chan,        \* the channel made by StreamSender::new
    ss_rx_open,     \* whether the Receiver returned by StreamSender::new is still held
    ss_log,         \* history: the chunks enqueued by send_chunk, in order
    network,        \* chunks taken from the sender's channel, on their way to the peer
    sreceiver,      \* StreamReceiver: stream_id; whether the Sender returned by new is still held; what the consumer's last read gave
    sr_chan,        \* the channel made by StreamReceiver::new
    delivered,      \* history: the chunks yielded by into_stream, in order
    sr_control,     \* history: the StreamControl messages emitted by the receiver
    ph_handlers,    \* ProtocolHandler.handlers, in registration order
    ph_call,        \* the process_message call in progress or finished: message, position, responses, what it returned (the responses or the erring handler's error)
    pool,           \* ConnectionPool.connections: peer id -> Connection (its channel generation, status, last_heartbeat)
    readers,        \* the live tasks of spawn_message_handler, each with the id and the socket it reads
    writers,        \* the live tasks of spawn_writer_handler, each with the socket it writes
    spawned,        \* history: every reader/writer pair ever spawned
    next_gen,       \* the number of the next socket opened by add_connection
    frames_read,    \* history: how many frames the reader tasks have taken from their sockets
    rconn,          \* the Connection of src/connection: reconnect_attempts, max_reconnects, the try_reconnect call in progress, its last result
    dt_call,        \* per caller: the allow_request call it is in
    dt_answer,      \* what the last allow_request to finish returned
    dt_recovery,    \* the recovery task: waiting for its tick, about to write HalfOpen, or about to clear the counter
    dt_episode,     \* history of the current HalfOpen episode: admissions, successes; whether the breaker last opened from HalfOpen
    lb_config,      \* the LoadBalancer's BalancerConfig: its strategy
    lb_nodes,       \* LoadBalancer.nodes: node id -> NodeHealth (is_healthy, error_count)
    lb_order,       \* the order in which the HashMap `nodes` is iterated
    current_index,  \* LoadBalancer.current_index
    lb_inserted,    \* history: the registered nodes in the order of their add_node calls
    lb_last,        \* history: the last next_node call (its strategy's result, the round-robin result before it)
    ad_config,      \* the pool's ConnectionConfig: whether rate_limit and balance_config are Some
    ad_last,        \* history: the last add_connection or add_secure_connection call (which, its id, its result)
    auth_method,    \* SecurityConfig.auth_method of the SecurityManager
    auth_last,      \* history: the last authenticate call (the credentials presented, the result)
    ag_pool,        \* the ids under which the Agent's ConnectionPool holds a connection
    ag_outbound,    \* the recipients of the messages enqueued on the Agent's connection, in order
    ag_last,        \* history: the last send_message call (recipient, what the protocol answered, the calls it made, its result)
    dl_config,      \* deepseek RateLimiter.config: requests_per_minute, requests_per_day, tokens_per_minute, max_parallel_requests, adaptive_limiting
    minute_requests, \* RateLimiter.minute_requests: the token counts of the recorded requests, oldest first
    day_requests,   \* RateLimiter.day_requests
    minute_tokens,  \* RateLimiter.minute_tokens
    active_requests, \* RateLimiter.active_requests
    last_error,     \* RateLimiter.last_error
    adaptive_limit, \* RateLimiter.adaptive_limit
    dl_client,      \* per client: the RequestGuards it holds, and whether its last check_request returned Ok and no acquire followed yet
    dl_dropping,    \* the tasks spawned by RequestGuard::drop that have not yet run
    dl_last,        \* history: the last check_request or acquire call (its result, the guards outstanding when it was made), and whether every acquire so far followed an Ok of check_request to the same client
    prev_writer,    \* whether the rotation task holds previous_key's write lock
    curr_readers,   \* how many decrypt calls hold current_key's read lock
    kl_rotation,    \* the rotation task: asleep until its tick, about to lock previous_key, or holding it and queued for current_key's write lock
    kl_decrypt,     \* per caller: the decrypt call it is in (where it stands, its input and nonce)
    sv_agents,      \* MeapServer.agents: the registered agent ids
    sv_connections, \* MeapServer.connections: agent id -> the connection whose channel sender was registered under it
    sv_handler,     \* per accepted connection: whether handle_connection still runs, where it stands, the message in hand
    sv_channel,     \* per accepted connection: the number of frames in its mpsc channel (its receiver is never polled, so only the number matters)
    sv_socket,      \* per accepted connection: the number of frames written to its socket
    next_index,     \* the sending StreamHandler's next_index
    sh_messages,    \* the StreamChunks of the messages the last create_stream_message returned, in order
    sh_data,        \* history: the data given to that call
    sh_pending,     \* the positions in sh_messages of the messages not yet handed to the receiving handler
    sh_buffer,      \* the receiving StreamHandler's buffer
    sh_last,        \* what the last process_stream_chunk of the receiving handler returned
    sh_calls,       \* history: the number of create_stream_message calls made on the sending handler
    ds_streak       \* history: record_failure calls since the breaker last stood Closed after
                    \* new, reset or record_success; -1 when the last success left it not Closed

rlVars == <<rl_config, requests, rl_lock, call, janitor, rl_recording, admitted>>

cbVars == <<breaker, streak>>
connVars == <<conn, conn_config, outbound, rx_open, wire, sender, last_send, enqueued>>

dsVars == <<ds_config, ds, ds_next_tick, ds_streak>>

secVars == <<sec_config, current_key, previous_key, next_rotation, sealed, last_decrypt>>

stVars == <<st_config, ssender, ss_chan, ss_rx_open, ss_log, network, sreceiver, sr_chan,
            delivered, sr_control>>

phVars == <<ph_handlers, ph_call>>

poolVars == <<pool, readers, writers, spawned, next_gen, frames_read>>

rcVars == <<rconn>>

dtVars == <<dt_call, dt_answer, dt_recovery, dt_episode>>

lbVars == <<lb_config, lb_nodes, lb_order, current_index, lb_inserted, lb_last>>

adVars == <<ad_config, ad_last>>

auVars == <<auth_method, auth_last>>

agVars == <<ag_pool, ag_outbound, ag_last>>

dlVars == <<dl_config, minute_requests, day_requests, minute_tokens,
            active_requests, last_error, adaptive_limit, dl_client,
            dl_dropping, dl_last>>

klVars == <<prev_writer, curr_readers, kl_rotation, kl_decrypt>>

svVars == <<sv_agents, sv_connections, sv_handler, sv_channel, sv_socket>>

shVars == <<next_index, sh_messages, sh_data, sh_pending, sh_buffer, sh_last,
            sh_calls>>

vars == <<now, rlVars, cbVars, connVars, dsVars, secVars, stVars, phVars, poolVars, rcVars, dtVars, lbVars, adVars, auVars, agVars, dlVars, klVars, svVars, shVars>>

\* What a step of one component leaves alone: the other components.
RLFrame == UNCHANGED <<cbVars, connVars, dsVars, secVars, stVars, phVars, poolVars, rcVars, dtVars, lbVars, adVars, auVars, agVars, dlVars, klVars, svVars, shVars>>
CBFrame == UNCHANGED <<rlVars, connVars, dsVars, secVars, stVars, phVars, poolVars, rcVars, dtVars, lbVars, adVars, auVars, agVars, dlVars, klVars, svVars, shVars>>
ConnFrame == UNCHANGED <<rlVars, cbVars, dsVars, secVars, stVars, phVars, poolVars, rcVars, dtVars, lbVars, adVars, auVars, agVars, dlVars, klVars, svVars, shVars>>
DSFrame == UNCHANGED <<rlVars, cbVars, connVars, secVars, stVars, phVars, poolVars, rcVars, lbVars, adVars, auVars, agVars, dlVars, klVars, svVars, shVars>>
SecFrame == UNCHANGED <<rlVars, cbVars, connVars, dsVars, stVars, phVars, poolVars, rcVars, dtVars, lbVars, adVars, auVars, agVars, dlVars, klVars, svVars, shVars>>
StFrame == UNCHANGED <<rlVars, cbVars, connVars, dsVars, secVars, phVars, poolVars, rcVars, dtVars, lbVars, adVars, auVars, agVars, dlVars, klVars, svVars, shVars>>
PHFrame == UNCHANGED <<rlVars, cbVars, connVars, dsVars, secVars, stVars, poolVars, rcVars, dtVars, lbVars, adVars, auVars, agVars, dlVars, klVars, svVars, shVars>>
PoolFrame == UNCHANGED <<rlVars, cbVars, connVars, dsVars, secVars, stVars, phVars, rcVars, dtVars, lbVars, adVars, auVars, agVars, dlVars, klVars, svVars, shVars>>
RCFrame == UNCHANGED <<rlVars, cbVars, connVars, dsVars, secVars, stVars, phVars, poolVars, dtVars, lbVars, adVars, auVars, agVars, dlVars, klVars, svVars, shVars>>
LBFrame == UNCHANGED <<rlVars, cbVars, connVars, dsVars, secVars, stVars, phVars, poolVars, rcVars, dtVars, adVars, auVars, agVars, dlVars, klVars, svVars, shVars>>
ADFrame == UNCHANGED <<rlVars, cbVars, connVars, dsVars, secVars, stVars, phVars, poolVars, rcVars, dtVars, lbVars, auVars, agVars, dlVars, klVars, svVars, shVars>>
AUFrame == UNCHANGED <<rlVars, cbVars, connVars, dsVars, secVars, stVars, phVars, poolVars, rcVars, dtVars, lbVars, adVars, agVars, dlVars, klVars, svVars, shVars>>
AGFrame == UNCHANGED <<rlVars, cbVars, connVars, dsVars, secVars, stVars, phVars, poolVars, rcVars, dtVars, lbVars, adVars, auVars, dlVars, klVars, svVars, shVars>>
\* The admission of connections involves the pool, its limiter and its balancer.
AdmissionFrame == UNCHANGED <<cbVars, connVars, dsVars, secVars, stVars, phVars, rcVars, dtVars, lbVars, auVars, agVars, dlVars, klVars, svVars, shVars>>
DLFrame == UNCHANGED <<rlVars, cbVars, connVars, dsVars, secVars, stVars, phVars, poolVars, rcVars, dtVars, lbVars, adVars, auVars, agVars, klVars, svVars, shVars>>
KLFrame == UNCHANGED <<rlVars, cbVars, connVars, dsVars, secVars, stVars, phVars, poolVars, rcVars, dtVars, lbVars, adVars, auVars, agVars, dlVars, svVars, shVars>>
KeyLockFrame == UNCHANGED <<rlVars, cbVars, connVars, dsVars, stVars, phVars, poolVars, rcVars, dtVars, lbVars, adVars, auVars, agVars, dlVars, svVars, shVars>>
SVFrame == UNCHANGED <<rlVars, cbVars, connVars, dsVars, secVars, stVars, phVars, poolVars, rcVars, dtVars, lbVars, adVars, auVars, agVars, dlVars, klVars, shVars>>
SHFrame == UNCHANGED <<rlVars, cbVars, connVars, dsVars, secVars, stVars, phVars, poolVars, rcVars, dtVars, lbVars, adVars, auVars, agVars, dlVars, klVars, svVars>>

\* ------------------------------------------------------------------- clock
\* Instant::duration_since saturates to zero when `earlier` is later than self.
duration_since(later, earlier) == IF later >= earlier THEN later - earlier ELSE 0

\* ------------------------------------------------------------ rate limiter
\* History kept with a task while admissions are recorded: whether the task has
\* seen a check of the client c1 rejected, and whether c1 has been admitted since.
NoCourse == "none"
NoCall == [pc |-> "idle", client_id |-> "c1", now |-> 0, result |-> "none", raced |-> FALSE,
           course |-> NoCourse]

RLConfigs == [max_requests : 1..MaxRequests, window_size : 1..MaxWindow]

\* RateLimiter::new with a drawn configuration.
RLInit ==
    /\ rl_config \in RLConfigs
    /\ requests = << >>
    /\ rl_lock = "free"
    /\ call = [t \in Callers |-> NoCall]
    /\ janitor = [pc |-> "idle", now |-> 0]
    /\ rl_recording \in BOOLEAN
    /\ admitted = [c \in Clients |-> [t \in 0..MaxTime |-> 0]]

\* The same limiter with the default-shaped smallest configuration, never used.
RLIdle ==
    /\ RLInit
    /\ rl_config = [max_requests |-> 1, window_size |-> 1]
    /\ rl_recording = FALSE

\* A retain that prunes nothing.
retain_KeepAll(history, at) == history

\* history.retain(|&time| now.duration_since(time) < window_size)
RECURSIVE retain(_, _)
retain(history, at) ==
    IF history = << >> THEN << >>
    ELSE IF duration_since(at, Head(history)) < rl_config.window_size
         THEN <<Head(history)>> \o retain(Tail(history), at)
         ELSE retain(Tail(history), at)

\* requests.entry(client_id).or_insert_with(Vec::new)
entry(map, c) == IF c \in DOMAIN map THEN map ELSE [k \in DOMAIN map \cup {c} |-> IF k = c THEN << >> ELSE map[k]]

\* The oldest timestamp a call now in progress, or any later call, can carry.
OldestStamp(clock, calls) ==
    LET S == {clock} \cup {calls[t].now : t \in {u \in Callers : calls[u].pc # "idle"}}
    IN CHOOSE m \in S : \A x \in S : m <= x

\* The admission history keeps the timestamps that can still share a window of
\* length window_size with a later admission; older ones are forgotten.
Recent(adm, clock, calls) ==
    [c \in Clients |-> [t \in 0..MaxTime |->
        IF rl_recording /\ t + rl_config.window_size > OldestStamp(clock, calls)
        THEN adm[c][t] ELSE 0]]

\* Time passes.
Tick ==
    /\ now < MaxTime
    /\ now' = now + 1
    /\ admitted' = Recent(admitted, now + 1, call)
    /\ UNCHANGED <<rl_config, requests, rl_lock, call, janitor, rl_recording>>
    /\ RLFrame

\* The write lock can be taken: no task holds it.
CanLock_NoExclusion == rl_lock \in Callers \cup {"free"}
CanLock == rl_lock = "free"

\* The count test of check_request: the request is over the limit.
OverLimit_Strict(t) == Len(requests[call[t].client_id]) > rl_config.max_requests
OverLimit(t) == Len(requests[call[t].client_id]) >= rl_config.max_requests

\* check_request, line 45: let now = Instant::now(), before the lock is requested.
check_request_start(t, c) ==
    /\ call[t].pc = "idle"
    /\ call' = [call EXCEPT ![t] = [NoCall EXCEPT !.pc = "lock", !.client_id = c, !.now = now,
                                                 !.course = call[t].course]]
    /\ UNCHANGED <<now, rl_config, requests, rl_lock, janitor, rl_recording, admitted>>
    /\ RLFrame

\* check_request, line 46: self.requests.write().await
check_request_lock(t) ==
    /\ call[t].pc = "lock"
    /\ CanLock
    /\ rl_lock' = t
    /\ call' = [call EXCEPT ![t].pc = "retain"]
    /\ UNCHANGED <<now, rl_config, requests, janitor, rl_recording, admitted>>
    /\ RLFrame

\* check_request, lines 49-53: the client's history is created and pruned.
check_request_retain(t) ==
    /\ call[t].pc = "retain"
    /\ LET c == call[t].client_id
           m == entry(requests, c)
       IN requests' = [m EXCEPT ![c] = retain(m[c], call[t].now)]
    /\ call' = [call EXCEPT ![t].pc = "test"]
    /\ UNCHANGED <<now, rl_config, rl_lock, janitor, rl_recording, admitted>>
    /\ RLFrame

\* check_request, lines 56-63: over the limit, Err(RateLimit); the guard is dropped.
check_request_reject(t) ==
    /\ call[t].pc = "test"
    /\ OverLimit(t)
    /\ call' = [call EXCEPT ![t] = [NoCall EXCEPT !.result = "RateLimit",
                                  !.raced = (call[t].raced /\ now = call[t].now),
                                  !.course = IF rl_recording /\ call[t].client_id = "c1"
                                             THEN "rejected"
                                             ELSE call[t].course]]
    /\ admitted' = Recent(admitted, now, call')
    /\ rl_lock' = IF rl_lock = t THEN "free" ELSE rl_lock
    /\ UNCHANGED <<now, rl_config, requests, janitor, rl_recording>>
    /\ RLFrame

\* check_request, line 56: under the limit, the call goes on to the push.
check_request_pass(t) ==
    /\ call[t].pc = "test"
    /\ ~OverLimit(t)
    /\ call' = [call EXCEPT ![t].pc = "push"]
    /\ UNCHANGED <<now, rl_config, requests, rl_lock, janitor, rl_recording, admitted>>
    /\ RLFrame

\* check_request, lines 66-67: history.push(now); Ok(()); the guard is dropped.
\* A task waiting for the lock with the same client and the same clock reading,
\* when this push takes the last free slot, is marked as the loser of the race.
check_request_push(t) ==
    /\ call[t].pc = "push"
    /\ LET c == call[t].client_id
           full == Len(requests[c]) + 1 = rl_config.max_requests
           after == [u \in Callers |->
                IF u = t
                THEN [NoCall EXCEPT !.result = "Ok", !.raced = (call[t].raced /\ now = call[t].now),
                                    !.course = IF c = "c1" /\ call[t].course = "rejected"
                                               THEN "readmitted"
                                               ELSE call[t].course]
                ELSE IF /\ call[u].pc = "lock" /\ call[u].client_id = c
                        /\ call[u].now = call[t].now /\ call[t].now = now /\ full
                     THEN [call[u] EXCEPT !.raced = TRUE]
                     ELSE call[u]]
       IN /\ requests' = [requests EXCEPT ![c] = Append(@, call[t].now)]
          /\ call' = after
          /\ admitted' = Recent([admitted EXCEPT ![c][call[t].now] = @ + 1], now, after)
    /\ rl_lock' = IF rl_lock = t THEN "free" ELSE rl_lock
    /\ UNCHANGED <<now, rl_config, janitor, rl_recording>>
    /\ RLFrame

\* cleanup, line 72: let now = Instant::now()
cleanup_start ==
    /\ janitor.pc = "idle"
    /\ janitor' = [pc |-> "lock", now |-> now]
    /\ UNCHANGED <<now, rl_config, requests, rl_lock, call, rl_recording, admitted>>
    /\ RLFrame

\* cleanup, lines 73-78: under the write lock every history is pruned and the
\* empty ones are removed; no suspension point lies between lock and unlock.
cleanup_run ==
    /\ janitor.pc = "lock"
    /\ rl_lock = "free"
    /\ LET pruned == [c \in DOMAIN requests |-> retain(requests[c], janitor.now)]
           kept == {c \in DOMAIN requests : pruned[c] # << >>}
       IN requests' = [c \in kept |-> pruned[c]]
    /\ janitor' = [janitor EXCEPT !.pc = "idle"]
    /\ UNCHANGED <<now, rl_config, rl_lock, call, rl_recording, admitted>>
    /\ RLFrame

\* No check_request and no cleanup is in progress.
Quiet == janitor.pc = "idle" /\ \A t \in Callers : call[t].pc = "idle"

RLSteps ==
    \/ \E t \in Callers : check_request_lock(t)
    \/ \E t \in Callers : check_request_retain(t)
    \/ \E t \in Callers : check_request_reject(t)
    \/ \E t \in Callers : check_request_pass(t)
    \/ \E t \in Callers : check_request_push(t)
    \/ cleanup_run

\* Calls made one after the other: a call starts only when none is in progress.
check_request_start_seq(t, c) == Quiet /\ check_request_start(t, c)
cleanup_start_seq == Quiet /\ cleanup_start

NextRateSeq ==
    \/ Tick
    \/ \E t \in SeqCallers, c \in Clients : check_request_start_seq(t, c)
    \/ cleanup_start_seq
    \/ RLSteps

\* Calls made concurrently by the tasks.
NextRate ==
    \/ Tick
    \/ \E t \in Callers, c \in RaceClients : check_request_start(t, c)
    \/ cleanup_start
    \/ RLSteps

\* ------------------------------------------------ connection::CircuitBreaker
\* CircuitBreaker::new(threshold)
CB_new(threshold) ==
    [state |-> "Closed", failure_count |-> 0, threshold |-> threshold, last_failure |-> -1]

\* The test of record_failure that opens the circuit.
ReachedThreshold(cb, count) == count >= cb.threshold

\* CircuitBreaker::record_failure at instant `at`.  The u32 counter stays far
\* below its overflow: a breaker is given at most MaxFailures failures.
CB_record_failure(cb, at) ==
    LET count == cb.failure_count + 1
    IN [cb EXCEPT !.failure_count = count,
                  !.last_failure = at,
                  !.state = IF ReachedThreshold(cb, count) THEN "Open" ELSE cb.state]

\* CircuitBreaker::record_success
CB_record_success(cb) ==
    [cb EXCEPT !.failure_count = 0, !.last_failure = -1, !.state = "Closed"]

\* CircuitBreaker::allow_request
CB_allow_request(cb) == cb.state = "Closed"

\* A stand-alone breaker with a drawn threshold.
CBInit ==
    /\ breaker \in {CB_new(th) : th \in 1..MaxThreshold}
    /\ streak = 0

CBIdle ==
    /\ breaker = CB_new(1)
    /\ streak = 0

breaker_record_failure ==
    /\ streak < MaxFailures
    /\ breaker' = CB_record_failure(breaker, now)
    /\ streak' = streak + 1
    /\ UNCHANGED now
    /\ CBFrame

breaker_record_success ==
    /\ breaker' = CB_record_success(breaker)
    /\ streak' = 0
    /\ UNCHANGED now
    /\ CBFrame

NextBreaker ==
    \/ Tick
    \/ breaker_record_failure
    \/ breaker_record_success

\* --------------------------------------------------- Connection and its writer
NoSend == [pc |-> "idle", start |-> 0, frame |-> 0]
NoResult == [result |-> "none", kind |-> "none", why |-> "none", calls |-> 0]

\* Connection::new: the breaker opens after 3 failures.
Connection_new ==
    [circuit_breaker |-> CB_new(3),
     status |-> "Connected",
     last_heartbeat |-> 0,
     metrics |-> [messages_sent |-> 0, messages_received |-> 0, errors |-> 0, latency |-> 0]]

\* add_connection: mpsc::channel(buffer_size), Connection::new, the writer spawned.
ConnInit ==
    /\ conn = Connection_new
    /\ conn_config \in [buffer_size : 1..MaxBuffer]
    /\ outbound = << >>
    /\ enqueued = << >>
    /\ rx_open = TRUE
    /\ wire = << >>
    /\ sender = NoSend
    /\ last_send = NoResult

ConnIdle ==
    /\ ConnInit
    /\ conn_config = [buffer_size |-> 1]

\* ConnectionMetrics::record_sent: fetch_add(1) on messages_sent.  The u64 counter
\* stays far below its overflow: a connection makes at most MaxSends sends.
record_sent_Twice(m) == [m EXCEPT !.messages_sent = @ + 2]
record_sent(m) == [m EXCEPT !.messages_sent = @ + 1]

\* ConnectionMetrics::record_latency: the last sample is stored.
record_latency(m, d) == [m EXCEPT !.latency = d]

\* The error kind of a send refused by the open breaker (mod.rs line 126).
BreakerOpenKind == "Connection"

\* Connection::send, lines 125-127: the breaker refuses the request.
send_refused ==
    /\ sender.pc = "idle"
    /\ last_send.calls < MaxSends
    /\ ~CB_allow_request(conn.circuit_breaker)
    /\ last_send' = [result |-> "Err", kind |-> BreakerOpenKind, why |-> "circuit_open",
                     calls |-> last_send.calls + 1]
    /\ UNCHANGED <<now, conn, conn_config, enqueued, outbound, rx_open, wire, sender>>
    /\ ConnFrame

\* Connection::send, lines 125-131: admitted; the clock is read and the frame encoded.
send_start ==
    /\ sender.pc = "idle"
    /\ last_send.calls < MaxSends
    /\ CB_allow_request(conn.circuit_breaker)
    /\ sender' = [pc |-> "enqueue", start |-> now, frame |-> last_send.calls + 1]
    /\ UNCHANGED <<now, conn, conn_config, enqueued, outbound, rx_open, wire, last_send>>
    /\ ConnFrame

\* Connection::send, lines 133-139: tx.send completes once the channel has room.
send_enqueued ==
    /\ sender.pc = "enqueue"
    /\ rx_open
    /\ Len(outbound) < conn_config.buffer_size
    /\ outbound' = Append(outbound, sender.frame)
    /\ enqueued' = Append(enqueued, sender.frame)
    /\ conn' = [conn EXCEPT
            !.circuit_breaker = CB_record_success(@),
            !.metrics = record_latency(record_sent(@), now - sender.start)]
    /\ last_send' = [result |-> "Ok", kind |-> "none", why |-> "none",
                     calls |-> last_send.calls + 1]
    /\ sender' = NoSend
    /\ UNCHANGED <<now, conn_config, rx_open, wire>>
    /\ ConnFrame

\* Connection::send, lines 140-143: the receiver is gone, tx.send fails.
send_failed ==
    /\ sender.pc = "enqueue"
    /\ ~rx_open
    /\ conn' = [conn EXCEPT !.circuit_breaker = CB_record_failure(@, now)]
    /\ last_send' = [result |-> "Err", kind |-> "Connection", why |-> "channel_closed",
                     calls |-> last_send.calls + 1]
    /\ sender' = NoSend
    /\ UNCHANGED <<now, conn_config, enqueued, outbound, rx_open, wire>>
    /\ ConnFrame

\* rx.recv(): the oldest frame in the channel.
recv_Newest(queue) == queue[Len(queue)]
recv(queue) == Head(queue)

\* spawn_writer_handler, lines 260-261: a frame is received and written.
writer_write ==
    /\ rx_open
    /\ outbound # << >>
    /\ wire' = Append(wire, recv(outbound))
    /\ outbound' = Tail(outbound)
    /\ UNCHANGED <<now, conn, conn_config, enqueued, rx_open, sender, last_send>>
    /\ ConnFrame

\* spawn_writer_handler, lines 261-264: the write fails; the task ends and drops rx
\* together with the frame in hand and the frames still queued.
writer_error ==
    /\ rx_open
    /\ outbound # << >>
    /\ rx_open' = FALSE
    /\ outbound' = << >>
    /\ UNCHANGED <<now, conn, conn_config, enqueued, wire, sender, last_send>>
    /\ ConnFrame

NextConn ==
    \/ Tick
    \/ send_refused
    \/ send_start
    \/ send_enqueued
    \/ send_failed
    \/ writer_write
    \/ writer_error

\* -------------------------------------------------- deepseek::CircuitBreaker
\* The pairs <<success_threshold, half_open_max_requests>> and the reset_timeout
\* values a breaker is configured with.
ProbeSettings == {<<1, 1>>, <<2, 1>>, <<2, 2>>}
ResetTimeouts == {1, 2}

DSConfigs ==
    {[failure_threshold |-> t, success_threshold |-> sp[1], reset_timeout |-> r,
      half_open_max_requests |-> sp[2], failure_window |-> w, auto_recovery |-> a] :
        t \in 1..MaxThreshold, sp \in ProbeSettings, r \in ResetTimeouts,
        w \in 1..MaxWindow, a \in BOOLEAN}

\* CircuitBreaker::new; trip_count and last_reset, which only feed get_stats, are left out.
DS_new ==
    [state |-> "Closed", failures |-> << >>, half_open_successes |-> 0,
     half_open_requests |-> 0, last_opened |-> -1]

DSInit ==
    /\ ds_config \in DSConfigs
    /\ ds = DS_new
    /\ ds_next_tick = 0
    /\ ds_streak = 0

DSIdle ==
    /\ DSInit
    /\ ds_config = [failure_threshold |-> 1, success_threshold |-> 1, reset_timeout |-> 1,
                    half_open_max_requests |-> 1, failure_window |-> 1, auto_recovery |-> FALSE]

\* failures.retain(|f| now.duration_since(f.timestamp) < failure_window)
RECURSIVE ds_retain(_, _)
ds_retain(failures, at) ==
    IF failures = << >> THEN << >>
    ELSE IF duration_since(at, Head(failures)) < ds_config.failure_window
         THEN <<Head(failures)>> \o ds_retain(Tail(failures), at)
         ELSE ds_retain(Tail(failures), at)

\* trip_circuit
trip_circuit(b, at) ==
    IF b.state # "Open" THEN [b EXCEPT !.state = "Open", !.last_opened = at] ELSE b

\* CircuitBreaker::record_failure, run to completion at instant `at`.
DS_record_failure(b, at) ==
    LET current_state == b.state
        failures == Append(ds_retain(b.failures, at), at)
        b1 == [b EXCEPT !.failures = failures]
        b2 == IF current_state = "Closed" /\ Len(failures) >= ds_config.failure_threshold
              THEN trip_circuit(b1, at) ELSE b1
    IN IF current_state = "HalfOpen" THEN trip_circuit(b2, at) ELSE b2

\* CircuitBreaker::record_success, run to completion.
DS_record_success(b) ==
    IF b.state = "HalfOpen"
    THEN LET successes == b.half_open_successes + 1
         IN IF successes >= ds_config.success_threshold
            THEN [b EXCEPT !.state = "Closed", !.half_open_successes = 0, !.failures = << >>]
            ELSE [b EXCEPT !.half_open_successes = successes]
    ELSE b

\* CircuitBreaker::allow_request: the answer.
DS_allows(b) ==
    CASE b.state = "Closed" -> TRUE
      [] b.state = "Open" -> FALSE
      [] OTHER -> b.half_open_requests < ds_config.half_open_max_requests

\* CircuitBreaker::allow_request: the breaker after the call.
DS_allow_request(b) ==
    IF b.state = "HalfOpen" /\ b.half_open_requests < ds_config.half_open_max_requests
    THEN [b EXCEPT !.half_open_requests = @ + 1]
    ELSE b

\* A caller records a failure.
ds_record_failure ==
    /\ Len(ds.failures) < MaxFailures
    /\ ds' = DS_record_failure(ds, now)
    /\ ds_streak' = IF ds_streak >= 0 /\ ds_streak < MaxFailures
                     THEN ds_streak + 1 ELSE ds_streak
    /\ UNCHANGED <<now, ds_config, ds_next_tick>>
    /\ UNCHANGED dtVars
    /\ DSFrame

\* A caller records a success.
ds_record_success ==
    /\ ds' = DS_record_success(ds)
    /\ ds_streak' = IF ds'.state = "Closed" THEN 0 ELSE -1
    /\ UNCHANGED <<now, ds_config, ds_next_tick>>
    /\ UNCHANGED dtVars
    /\ DSFrame

\* A caller asks for admission.
ds_allow_request ==
    /\ ds' = DS_allow_request(ds)
    /\ UNCHANGED <<now, ds_config, ds_next_tick, ds_streak>>
    /\ UNCHANGED dtVars
    /\ DSFrame

\* CircuitBreaker::reset
ds_reset ==
    /\ ds' = [DS_new EXCEPT !.last_opened = ds.last_opened]
    /\ ds_streak' = 0
    /\ UNCHANGED <<now, ds_config, ds_next_tick>>
    /\ UNCHANGED dtVars
    /\ DSFrame

\* The recovery test without the wait.
recovery_due_Early(b, at) ==
    /\ b.state = "Open"
    /\ b.last_opened # -1

\* start_recovery_task: the breaker is Open, it has an opening time, and
\* reset_timeout has elapsed since.
recovery_due(b, at) ==
    /\ b.state = "Open"
    /\ b.last_opened # -1
    /\ at - b.last_opened >= ds_config.reset_timeout

\* start_recovery_task: one turn of the loop, at a tick of its one-second interval.
ds_recovery_tick ==
    /\ ds_config.auto_recovery
    /\ ds_next_tick <= now
    /\ ds_next_tick' = ds_next_tick + 1
    /\ ds' = IF recovery_due(ds, now)
             THEN [ds EXCEPT !.state = "HalfOpen", !.half_open_requests = 0]
             ELSE ds
    /\ UNCHANGED <<now, ds_config, ds_streak>>
    /\ UNCHANGED dtVars
    /\ DSFrame

\* The service outcomes given to execute.
Outcomes == {"Ok", "Err"}

\* CircuitBreaker::execute, lines 168-198, run to completion with a service call
\* that gives `outcome`: a refused request returns CircuitOpen; otherwise the
\* state is read, the service called, and a success is recorded only if the
\* state read was HalfOpen, a failure always.
DS_execute(b, outcome, at) ==
    IF ~DS_allows(b) THEN b
    ELSE LET admitted_b == DS_allow_request(b)
             current_state == admitted_b.state
         IN IF outcome = "Ok"
            THEN IF current_state = "HalfOpen" THEN DS_record_success(admitted_b)
                 ELSE admitted_b
            ELSE DS_record_failure(admitted_b, at)

\* A caller runs a request through execute.
ds_execute(outcome) ==
    /\ outcome = "Err" => Len(ds.failures) < MaxFailures
    /\ ds' = DS_execute(ds, outcome, now)
    /\ ds_streak' =
            IF ~DS_allows(ds) THEN ds_streak
            ELSE IF outcome = "Err"
                 THEN IF ds_streak >= 0 /\ ds_streak < MaxFailures
                      THEN ds_streak + 1 ELSE ds_streak
                 ELSE IF ds.state = "HalfOpen"
                      THEN IF ds'.state = "Closed" THEN 0 ELSE -1
                      ELSE ds_streak
    /\ UNCHANGED <<now, ds_config, ds_next_tick>>
    /\ UNCHANGED dtVars
    /\ DSFrame

ExecuteFails == ds_execute("Err")

NextExecute ==
    \/ Tick
    \/ \E outcome \in Outcomes : ds_execute(outcome)
    \/ ds_recovery_tick

NextDeepseek ==
    \/ Tick
    \/ ds_record_failure
    \/ ds_record_success
    \/ ds_allow_request
    \/ ds_reset
    \/ ds_recovery_tick

\* ------------------------------------------------------------ SecurityManager
\* The key bytes generate_key passes to UnboundKey::new: &[0; 32].
ZeroKey == 0

Nonces == {1, 2}
NoKey == [key |-> -1, created_at |-> -1]
NoDecrypt == [result |-> "none", kind |-> "none", age |-> 0, nonce_ok |-> TRUE, rotated |-> TRUE]

\* generate_key: the system random generator is created and not used.
generate_key(at) == [key |-> ZeroKey, created_at |-> at]

\* SecurityManager::new: the first key, and the rotation task started.
SecInit ==
    /\ sec_config \in [encrypt_messages : BOOLEAN, key_rotation_interval : 1..MaxInterval]
    /\ current_key = generate_key(0)
    /\ previous_key = NoKey
    /\ next_rotation = 0
    /\ sealed = {}
    /\ last_decrypt = NoDecrypt

SecIdle ==
    /\ SecInit
    /\ sec_config = [encrypt_messages |-> TRUE, key_rotation_interval |-> 1]

\* seal_in_place_append_tag and open_in_place of ChaCha20-Poly1305: opening succeeds
\* with the key bytes and the nonce the text was sealed with.
seal(k, nonce) == [is_sealed |-> TRUE, key |-> k.key, nonce |-> nonce]
opens(k, nonce, text) == text.is_sealed /\ text.key = k.key /\ text.nonce = nonce
Plain == [is_sealed |-> FALSE, key |-> -1, nonce |-> -1]

\* SecurityManager::encrypt
encrypt(nonce) ==
    IF ~sec_config.encrypt_messages THEN Plain ELSE seal(current_key, nonce)

\* SecurityManager::decrypt: the current key, then the previous key if there is one.
decrypt(text, nonce) ==
    IF ~sec_config.encrypt_messages THEN "Ok"
    ELSE IF opens(current_key, nonce, text) THEN "Ok"
    ELSE IF previous_key # NoKey /\ opens(previous_key, nonce, text) THEN "Ok"
    ELSE "Security"

\* start_key_rotation: one turn of the loop, at a tick of its interval (the first
\* tick comes at once).
rotate_key ==
    /\ next_rotation <= now
    /\ next_rotation' = next_rotation + sec_config.key_rotation_interval
    /\ previous_key' = current_key
    /\ current_key' = generate_key(now)
    /\ UNCHANGED <<now, sec_config, sealed, last_decrypt>>
    /\ SecFrame

\* A caller encrypts a message.
sec_encrypt(nonce) ==
    /\ Cardinality(sealed) < MaxSealed
    /\ sealed' = sealed \cup {[text |-> encrypt(nonce), nonce |-> nonce, at |-> now]}
    /\ UNCHANGED <<now, sec_config, current_key, previous_key, next_rotation, last_decrypt>>
    /\ SecFrame

\* A caller decrypts what encrypt returned earlier.
sec_decrypt(m, nonce) ==
    /\ m \in sealed
    /\ LET r == decrypt(m.text, nonce)
       IN last_decrypt' = [result |-> IF r = "Ok" THEN "Ok" ELSE "Err",
                           kind |-> IF r = "Ok" THEN "none" ELSE r,
                           age |-> now - m.at,
                           nonce_ok |-> nonce = m.nonce,
                           rotated |-> next_rotation > now]
    /\ UNCHANGED <<now, sec_config, current_key, previous_key, next_rotation, sealed>>
    /\ SecFrame

NextSecurity ==
    \/ Tick
    \/ rotate_key
    \/ \E nonce \in Nonces : sec_encrypt(nonce)
    \/ \E m \in sealed : \E nonce \in Nonces : sec_decrypt(m, nonce)

\* ------------------------------------------- StreamSender and StreamReceiver
\* The values Uuid::new_v4 gives a sender, and the ids a receiver is created with.
StreamIds == {"s1", "s2"}

\* StreamChunk; the data bytes are carried unchanged and left out.
StreamChunk(stream_id, chunk_id, is_last) ==
    [stream_id |-> stream_id, chunk_id |-> chunk_id, is_last |-> is_last]
NoChunk == StreamChunk("none", 0, FALSE)

\* StreamSender::new and StreamReceiver::new: two channels, both empty, and between
\* them the transport that carries the chunks to the peer.
StInit ==
    /\ st_config \in [sender_buffer : 1..MaxBuffer, receiver_buffer : 1..MaxBuffer]
    /\ ssender \in {[stream_id |-> id, chunk_id |-> 0, pc |-> "idle", chunk |-> NoChunk,
                     result |-> "none"] : id \in StreamIds}
    /\ ss_chan = << >>
    /\ ss_rx_open = TRUE
    /\ ss_log = << >>
    /\ network = {}
    /\ sreceiver \in [stream_id : StreamIds, tx_open : {TRUE}, last_read : {"none"}]
    /\ sr_chan = << >>
    /\ delivered = << >>
    /\ sr_control = << >>

StIdle ==
    /\ StInit
    /\ st_config = [sender_buffer |-> 1, receiver_buffer |-> 1]
    /\ ssender.stream_id = "s1"
    /\ sreceiver.stream_id = "s1"

\* self.chunk_id += 1 (a u32; the ids modelled stay far below its overflow)
NextChunkId_Same(id) == id
NextChunkId(id) == id + 1

\* send_chunk, lines 66-72: the chunk is built with the current id and the id advanced.
send_chunk_start(is_last) ==
    /\ ssender.pc = "idle"
    /\ ssender.chunk_id < MaxChunks
    /\ ssender' = [ssender EXCEPT
            !.chunk = StreamChunk(ssender.stream_id, ssender.chunk_id, is_last),
            !.chunk_id = NextChunkId(@),
            !.pc = "sending"]
    /\ UNCHANGED <<now, st_config, ss_chan, ss_rx_open, ss_log, network, sreceiver, sr_chan,
                   delivered, sr_control>>
    /\ StFrame

\* A channel that always has room.
has_capacity_Always(chan, buffer_size) == TRUE

\* mpsc::channel(buffer_size): a send completes only while fewer than
\* buffer_size messages are queued.
has_capacity(chan, buffer_size) == Len(chan) < buffer_size

\* send_chunk, line 73: tx.send completes once the channel has room.
send_chunk_enqueue ==
    /\ ssender.pc = "sending"
    /\ ss_rx_open
    /\ has_capacity(ss_chan, st_config.sender_buffer)
    /\ ss_chan' = Append(ss_chan, ssender.chunk)
    /\ ss_log' = Append(ss_log, ssender.chunk)
    /\ ssender' = [ssender EXCEPT !.pc = "idle", !.chunk = NoChunk, !.result = "Ok"]
    /\ UNCHANGED <<now, st_config, ss_rx_open, network, sreceiver, sr_chan, delivered,
                   sr_control>>
    /\ StFrame

\* send_chunk, lines 73-74: the receiving end is gone, tx.send fails.
send_chunk_fail ==
    /\ ssender.pc = "sending"
    /\ ~ss_rx_open
    /\ ssender' = [ssender EXCEPT !.pc = "idle", !.chunk = NoChunk, !.result = "Stream"]
    /\ UNCHANGED <<now, st_config, ss_chan, ss_rx_open, ss_log, network, sreceiver, sr_chan,
                   delivered, sr_control>>
    /\ StFrame

\* The holder of the Receiver returned by StreamSender::new takes the next chunk and
\* hands it to the transport.
ss_recv ==
    /\ ss_rx_open
    /\ ss_chan # << >>
    /\ network' = network \cup {Head(ss_chan)}
    /\ ss_chan' = Tail(ss_chan)
    /\ UNCHANGED <<now, st_config, ssender, ss_rx_open, ss_log, sreceiver, sr_chan,
                   delivered, sr_control>>
    /\ StFrame

\* The Receiver returned by StreamSender::new is dropped (start_stream drops it at
\* once); the chunks still queued go with it.
ss_drop_rx ==
    /\ ss_rx_open
    /\ ss_rx_open' = FALSE
    /\ ss_chan' = << >>
    /\ UNCHANGED <<now, st_config, ssender, ss_log, network, sreceiver, sr_chan, delivered,
                   sr_control>>
    /\ StFrame

\* A chunk arrives from the peer, in whatever order the transport brings it, and
\* the holder of the Sender returned by StreamReceiver::new enqueues it.
sr_arrive(chunk) ==
    /\ chunk \in network
    /\ sreceiver.tx_open
    /\ has_capacity(sr_chan, st_config.receiver_buffer)
    /\ sr_chan' = Append(sr_chan, chunk)
    /\ network' = network \ {chunk}
    /\ UNCHANGED <<now, st_config, ssender, ss_chan, ss_rx_open, ss_log, sreceiver,
                   delivered, sr_control>>
    /\ StFrame

\* into_stream, lines 101-103: the next chunk received is yielded to the consumer.
sr_yield ==
    /\ sr_chan # << >>
    /\ delivered' = Append(delivered, Head(sr_chan))
    /\ sr_chan' = Tail(sr_chan)
    /\ sreceiver' = [sreceiver EXCEPT !.last_read = "chunk"]
    /\ UNCHANGED <<now, st_config, ssender, ss_chan, ss_rx_open, ss_log, network, sr_control>>
    /\ StFrame

\* The Sender returned by StreamReceiver::new is dropped; the chunks already
\* queued stay in the channel.
sr_drop_tx ==
    /\ sreceiver.tx_open
    /\ sreceiver' = [sreceiver EXCEPT !.tx_open = FALSE]
    /\ UNCHANGED <<now, st_config, ssender, ss_chan, ss_rx_open, ss_log, network, sr_chan,
                   delivered, sr_control>>
    /\ StFrame

\* What the consumer's read gives when rx.recv() returns None: the `while let`
\* of line 101 ends and so does the stream.
AfterSenderDropped == "end"

\* into_stream, line 101: the channel is empty and its Sender dropped.
sr_end ==
    /\ sr_chan = << >>
    /\ ~sreceiver.tx_open
    /\ sreceiver.last_read # AfterSenderDropped
    /\ sreceiver' = [sreceiver EXCEPT !.last_read = AfterSenderDropped]
    /\ UNCHANGED <<now, st_config, ssender, ss_chan, ss_rx_open, ss_log, network, sr_chan,
                   delivered, sr_control>>
    /\ StFrame

NextStream ==
    \/ \E is_last \in BOOLEAN : send_chunk_start(is_last)
    \/ send_chunk_enqueue
    \/ send_chunk_fail
    \/ ss_recv
    \/ ss_drop_rx
    \/ \E chunk \in network : sr_arrive(chunk)
    \/ sr_yield
    \/ sr_drop_tx
    \/ sr_end

\* ------------------------------------------------------------ ProtocolHandler
\* The handlers that can be registered: what handle_message returns.
HandlerIds == {"h1", "h2"}
HandlerKinds == {"Some", "None", "Err"}
Handlers == [id : HandlerIds, kind : HandlerKinds]
Messages == {"m1", "m2"}

NoProcess ==
    [pc |-> "idle", message |-> "m1", next |-> 1, responses |-> << >>, invoked |-> << >>,
     result |-> "none", returned |-> [responses |-> << >>, error |-> "none"]]

\* ProtocolHandler::new
PHInit ==
    /\ ph_handlers = << >>
    /\ ph_call = NoProcess

PHIdle == PHInit

\* What a handler that answers returns for its copy of the message.
Response(handler, message) == [from |-> handler.id, re |-> message]

\* responses.push(response)
PushResponse_Front(responses, response) == <<response>> \o responses
PushResponse(responses, response) == Append(responses, response)

\* add_handler: the write lock is free only while no process_message holds the
\* read lock.
add_handler(handler) ==
    /\ ph_call.pc # "run"
    /\ Len(ph_handlers) < MaxHandlers
    /\ ph_handlers' = Append(ph_handlers, handler)
    /\ UNCHANGED <<now, ph_call>>
    /\ PHFrame

\* process_message, lines 76-77: the read lock taken, the result vector empty.
process_message_start(message) ==
    /\ ph_call.pc # "run"
    /\ ph_call' = [NoProcess EXCEPT !.pc = "run", !.message = message]
    /\ UNCHANGED <<now, ph_handlers>>
    /\ PHFrame

\* process_message, line 79: the `?` on a handler's error.  The call returns
\* that error at once; the responses collected so far are dropped with the
\* local vector.
AfterError_Continue(c, handler, called) ==
    [c EXCEPT !.next = @ + 1, !.invoked = called]
AfterError(c, handler, called) ==
    [c EXCEPT !.invoked = called, !.pc = "done", !.result = "Err",
              !.returned = [responses |-> << >>, error |-> handler.id]]

\* process_message, lines 79-83: one turn of the loop.  The handler is called with
\* a clone of the message; an answer is pushed, an error ends the call.
process_message_handler ==
    /\ ph_call.pc = "run"
    /\ ph_call.next <= Len(ph_handlers)
    /\ LET handler == ph_handlers[ph_call.next]
           called == Append(ph_call.invoked,
                            [handler |-> handler.id, message |-> ph_call.message])
       IN ph_call' =
            CASE handler.kind = "Some" ->
                    [ph_call EXCEPT !.next = @ + 1, !.invoked = called,
                        !.responses = PushResponse(@, Response(handler, ph_call.message))]
              [] handler.kind = "None" ->
                    [ph_call EXCEPT !.next = @ + 1, !.invoked = called]
              [] OTHER -> AfterError(ph_call, handler, called)
    /\ UNCHANGED <<now, ph_handlers>>
    /\ PHFrame

\* process_message, line 85: every handler was called; Ok(responses).
process_message_return ==
    /\ ph_call.pc = "run"
    /\ ph_call.next > Len(ph_handlers)
    /\ ph_call' = [ph_call EXCEPT !.pc = "done", !.result = "Ok",
                        !.returned = [responses |-> ph_call.responses, error |-> "none"]]
    /\ UNCHANGED <<now, ph_handlers>>
    /\ PHFrame

NextProtocol ==
    \/ \E handler \in Handlers : add_handler(handler)
    \/ \E message \in Messages : process_message_start(message)
    \/ process_message_handler
    \/ process_message_return

\* ------------------------------------------------- ConnectionPool and its tasks
\* CONNECTION_TIMEOUT (60 s), in units of HEARTBEAT_INTERVAL (30 s), the length of
\* one Tick in this part of the model.
CONNECTION_TIMEOUT == 2

PeerIds == {"p1", "p2"}
NoConn == [gen |-> 0, status |-> "none", last_heartbeat |-> 0]
Tasks == [id : PeerIds, gen : 1..MaxConns]

\* ConnectionPool::new
PoolInit ==
    /\ pool = [id \in PeerIds |-> NoConn]
    /\ readers = {}
    /\ writers = {}
    /\ spawned = {}
    /\ next_gen = 1
    /\ frames_read = 0

PoolIdle == PoolInit

\* Connection::is_alive
is_alive(c) == now - c.last_heartbeat < CONNECTION_TIMEOUT

\* Connection::update_heartbeat
update_heartbeat(c) == [c EXCEPT !.last_heartbeat = now]

\* add_connection, lines 203-214: the Connection is built and inserted under the
\* id, and the reader and the writer are spawned.
insert_and_spawn(id) ==
    /\ pool' = [pool EXCEPT ![id] =
                    [gen |-> next_gen, status |-> "Connected", last_heartbeat |-> now]]
    /\ readers' = readers \cup {[id |-> id, gen |-> next_gen]}
    /\ writers' = writers \cup {[id |-> id, gen |-> next_gen]}
    /\ spawned' = spawned \cup {[id |-> id, gen |-> next_gen]}
    /\ next_gen' = next_gen + 1

\* add_connection (and add_secure_connection, which differs in the handshake
\* only), when the connect succeeds: a new socket and channel, the Connection
\* inserted under the id (replacing and dropping the one that was there), a
\* reader and a writer spawned.  A refused or failed connect changes nothing.
add_connection(id) ==
    /\ next_gen <= MaxConns
    /\ insert_and_spawn(id)
    /\ UNCHANGED <<now, frames_read>>
    /\ PoolFrame

\* spawn_message_handler, lines 230-238: a text frame that decodes as a Heartbeat.
\* The connection looked up is the one now stored under the task's id.
reader_heartbeat(r) ==
    /\ r \in readers
    /\ frames_read < MaxFrames
    /\ frames_read' = frames_read + 1
    /\ pool' = IF pool[r.id] # NoConn
               THEN [pool EXCEPT ![r.id] = update_heartbeat(@)]
               ELSE pool
    /\ UNCHANGED <<now, readers, writers, spawned, next_gen>>
    /\ PoolFrame

\* spawn_message_handler, lines 230-238 and 248: a text frame that decodes as
\* another Message, or a frame that is neither Text nor Close.
reader_other(r) ==
    /\ r \in readers
    /\ frames_read < MaxFrames
    /\ frames_read' = frames_read + 1
    /\ UNCHANGED <<now, pool, readers, writers, spawned, next_gen>>
    /\ PoolFrame

\* What the reader does with a text frame that serde_json::from_str rejects:
\* the `if let Ok(msg)` at line 231 has no else branch.
AfterUndecodable(r) == readers

\* spawn_message_handler, line 231: a text frame that does not decode.
reader_undecodable(r) ==
    /\ r \in readers
    /\ frames_read < MaxFrames
    /\ frames_read' = frames_read + 1
    /\ readers' = AfterUndecodable(r)
    /\ UNCHANGED <<now, pool, writers, spawned, next_gen>>
    /\ PoolFrame

\* spawn_message_handler, lines 240-247 and 228: a Close frame, a read error, or
\* the end of the socket's stream; the task ends.
reader_stop(r) ==
    /\ r \in readers
    /\ readers' = readers \ {r}
    /\ UNCHANGED <<now, pool, writers, spawned, next_gen, frames_read>>
    /\ PoolFrame

\* spawn_writer_handler, lines 261-264: a write fails; the task ends.
writer_stop(w) ==
    /\ w \in writers
    /\ writers' = writers \ {w}
    /\ UNCHANGED <<now, pool, readers, spawned, next_gen, frames_read>>
    /\ PoolFrame

\* spawn_writer_handler, line 260: rx.recv() returns None once the Connection
\* holding the channel's sender has been dropped from the pool; the task ends.
writer_closed(w) ==
    /\ w \in writers
    /\ pool[w.id].gen # w.gen
    /\ writers' = writers \ {w}
    /\ UNCHANGED <<now, pool, readers, spawned, next_gen, frames_read>>
    /\ PoolFrame

PoolSteps ==
    \/ \E id \in PeerIds : add_connection(id)
    \/ \E r \in Tasks : reader_heartbeat(r)
    \/ \E r \in Tasks : reader_other(r)
    \/ \E r \in Tasks : reader_undecodable(r)
    \/ \E r \in Tasks : reader_stop(r)
    \/ \E w \in Tasks : writer_stop(w)
    \/ \E w \in Tasks : writer_closed(w)

NextPool ==
    \/ Tick
    \/ PoolSteps

\* ------------------------------------------- Connection::try_reconnect (src/)
\* Connection::new: no attempt made yet.  `granted` counts the calls answered true
\* since construction or the last reset.
RC_new(max_reconnects) ==
    [reconnect_attempts |-> 0, max_reconnects |-> max_reconnects, pc |-> "idle", wake |-> 0,
     result |-> "none", granted |-> 0]

RCInit == rconn \in {RC_new(m) : m \in 0..MaxReconnects}
RCIdle == rconn = RC_new(0)

\* The test at the head of try_reconnect.
Exhausted_Above(c) == c.reconnect_attempts > c.max_reconnects
Exhausted(c) == c.reconnect_attempts >= c.max_reconnects

\* try_reconnect, lines 48-50: no attempt is left; Ok(false).
try_reconnect_refused ==
    /\ rconn.pc = "idle"
    /\ Exhausted(rconn)
    /\ rconn' = [rconn EXCEPT !.result = "false"]
    /\ UNCHANGED now
    /\ RCFrame

\* try_reconnect, lines 52-54: the backoff sleep of 2^reconnect_attempts begins.
try_reconnect_sleep ==
    /\ rconn.pc = "idle"
    /\ ~Exhausted(rconn)
    /\ rconn' = [rconn EXCEPT !.pc = "sleeping", !.wake = now + 2 ^ rconn.reconnect_attempts,
                              !.result = "none"]
    /\ UNCHANGED now
    /\ RCFrame

\* try_reconnect, lines 56-57: the sleep is over; the attempt is counted; Ok(true).
try_reconnect_granted ==
    /\ rconn.pc = "sleeping"
    /\ now >= rconn.wake
    /\ rconn' = [rconn EXCEPT !.pc = "idle", !.reconnect_attempts = @ + 1,
                              !.result = "true", !.granted = @ + 1]
    /\ UNCHANGED now
    /\ RCFrame

\* reset_reconnect_attempts (it takes &mut self: no try_reconnect is in progress)
reset_reconnect_attempts ==
    /\ rconn.pc = "idle"
    /\ rconn.reconnect_attempts > 0
    /\ rconn' = [rconn EXCEPT !.reconnect_attempts = 0, !.granted = 0, !.result = "none"]
    /\ UNCHANGED now
    /\ RCFrame

NextReconnect ==
    \/ Tick
    \/ try_reconnect_refused
    \/ try_reconnect_sleep
    \/ try_reconnect_granted
    \/ reset_reconnect_attempts

\* ----------------------------- deepseek::CircuitBreaker, its tasks interleaved
\* allow_request and the recovery task take their locks one after the other; here
\* each lock acquisition is a step.  record_failure, record_success and reset run
\* to completion.
DSCallers == {"a1", "a2"}

\* The configurations of the interleaved specification: the recovery task runs,
\* the first failure opens the breaker, and it may recover one time unit later.
DSTaskConfigs ==
    {c \in DSConfigs :
        /\ c.auto_recovery
        /\ c.failure_threshold = 1
        /\ c.failure_window = 1
        /\ c.reset_timeout = 1}

NoAllow == [pc |-> "idle"]
NoEpisode == [admitted |-> 0, successes |-> 0, from_half |-> FALSE]

DTInit ==
    /\ dt_call = [c \in DSCallers |-> NoAllow]
    /\ dt_answer = "none"
    /\ dt_recovery = "wait"
    /\ dt_episode = NoEpisode

DTIdle == DTInit

\* CircuitBreaker::new with one of the configurations above.
DSTaskInit ==
    /\ DSInit
    /\ ds_config \in DSTaskConfigs

\* allow_request, lines 150-154: the state is read; Closed admits, Open refuses.
allow_request_read(c) ==
    /\ dt_call[c].pc = "idle"
    /\ dt_call' = [dt_call EXCEPT ![c] =
            [pc |-> IF ds.state = "HalfOpen" THEN "count" ELSE "idle"]]
    /\ dt_answer' = CASE ds.state = "Closed" -> "true"
                       [] ds.state = "Open" -> "false"
                       [] OTHER -> dt_answer
    /\ UNCHANGED <<now, dsVars, dt_recovery, dt_episode>>
    /\ DSFrame

\* allow_request, lines 155-163: HalfOpen was read; the counter is locked, tested
\* and incremented.
allow_request_count(c) ==
    /\ dt_call[c].pc = "count"
    /\ LET admit == ds.half_open_requests < ds_config.half_open_max_requests
       IN /\ ds' = IF admit THEN [ds EXCEPT !.half_open_requests = @ + 1] ELSE ds
          /\ dt_call' = [dt_call EXCEPT ![c] = NoAllow]
          /\ dt_answer' = IF admit THEN "true" ELSE "false"
          /\ dt_episode' = IF admit /\ ds.state = "HalfOpen"
                           THEN [dt_episode EXCEPT !.admitted = @ + 1]
                           ELSE dt_episode
    /\ UNCHANGED <<now, ds_config, ds_next_tick, ds_streak, dt_recovery>>
    /\ DSFrame

\* start_recovery_task, lines 129-135: a tick of the interval; the state and the
\* opening time are read.
recovery_check ==
    /\ ds_config.auto_recovery
    /\ dt_recovery = "wait"
    /\ ds_next_tick <= now
    /\ ds_next_tick' = ds_next_tick + 1
    /\ dt_recovery' = IF recovery_due(ds, now) THEN "write" ELSE "wait"
    /\ UNCHANGED <<now, ds_config, ds, ds_streak, dt_call, dt_answer, dt_episode>>
    /\ DSFrame

\* start_recovery_task, line 138: the state is set to HalfOpen; an episode begins.
recovery_half_open ==
    /\ dt_recovery = "write"
    /\ ds' = [ds EXCEPT !.state = "HalfOpen"]
    /\ dt_recovery' = "clear"
    /\ dt_episode' = [dt_episode EXCEPT !.admitted = 0, !.successes = 0]
    /\ UNCHANGED <<now, ds_config, ds_next_tick, ds_streak, dt_call, dt_answer>>
    /\ DSFrame

\* start_recovery_task, line 139: the counter of half-open requests is cleared.
recovery_clear ==
    /\ dt_recovery = "clear"
    /\ ds' = [ds EXCEPT !.half_open_requests = 0]
    /\ dt_recovery' = "wait"
    /\ UNCHANGED <<now, ds_config, ds_next_tick, ds_streak, dt_call, dt_answer, dt_episode>>
    /\ DSFrame

\* A caller records a failure (at most one more than it takes to open the breaker
\* is kept in the history).
task_record_failure ==
    /\ Len(ds.failures) <= ds_config.failure_threshold
    /\ ds' = DS_record_failure(ds, now)
    /\ dt_episode' = [dt_episode EXCEPT
            !.from_half = IF ds.state # "Open" /\ ds'.state = "Open"
                          THEN ds.state = "HalfOpen" ELSE @]
    /\ UNCHANGED <<now, ds_config, ds_next_tick, ds_streak, dt_call, dt_answer, dt_recovery>>
    /\ DSFrame

\* A caller records a success.
task_record_success ==
    /\ ds' = DS_record_success(ds)
    /\ dt_episode' = IF ds.state = "HalfOpen"
                     THEN [dt_episode EXCEPT !.successes = @ + 1]
                     ELSE dt_episode
    /\ UNCHANGED <<now, ds_config, ds_next_tick, ds_streak, dt_call, dt_answer, dt_recovery>>
    /\ DSFrame

\* CircuitBreaker::reset
task_reset ==
    /\ ds' = [DS_new EXCEPT !.last_opened = ds.last_opened]
    /\ dt_episode' = [dt_episode EXCEPT !.from_half = FALSE]
    /\ UNCHANGED <<now, ds_config, ds_next_tick, ds_streak, dt_call, dt_answer, dt_recovery>>
    /\ DSFrame

NextDeepseekTasks ==
    \/ Tick
    \/ \E c \in DSCallers : allow_request_read(c)
    \/ \E c \in DSCallers : allow_request_count(c)
    \/ recovery_check
    \/ recovery_half_open
    \/ recovery_clear
    \/ task_record_failure
    \/ task_record_success
    \/ task_reset

\* ----------------------------------------------------------------- LoadBalancer
Nodes == {"n1", "n2", "n3"}
Strategies == {"RoundRobin", "LeastConnections", "LeastLoad"}
NodeLimits == {2, 3}
LBConfigs == [strategy : Strategies, max_connections_per_node : NodeLimits]

NoLast == [result |-> "none", prev |-> "none"]

\* LoadBalancer::new.  NodeHealth.last_check is written by add_node and
\* update_health and read nowhere; it is left out.
LBInit ==
    /\ lb_config \in LBConfigs
    /\ lb_nodes = << >>
    /\ lb_order = << >>
    /\ current_index = 0
    /\ lb_inserted = << >>
    /\ lb_last = NoLast

LBIdle ==
    /\ LBInit
    /\ lb_config = [strategy |-> "RoundRobin", max_connections_per_node |-> 2]

\* The sequence with x put at position i.
InsertAt(seq, i, x) == SubSeq(seq, 1, i - 1) \o <<x>> \o SubSeq(seq, i, Len(seq))

\* The sequence without x.
Without(seq, x) == SelectSeq(seq, LAMBDA y : y # x)

\* add_node: Err when the map already holds max_connections_per_node entries;
\* otherwise a healthy entry is inserted.  A new key takes the place in the
\* iteration order that its hash gives it; a key already present keeps its place.
add_node(node_id) ==
    /\ IF Len(lb_order) >= lb_config.max_connections_per_node
       THEN UNCHANGED <<lb_nodes, lb_order, lb_inserted, lb_last>>
       ELSE /\ lb_nodes' = [n \in DOMAIN lb_nodes \cup {node_id} |->
                                IF n = node_id
                                THEN [is_healthy |-> TRUE, error_count |-> 0]
                                ELSE lb_nodes[n]]
            /\ IF node_id \in DOMAIN lb_nodes
               THEN UNCHANGED <<lb_order, lb_inserted>>
               ELSE /\ \E i \in 1..(Len(lb_order) + 1) :
                            lb_order' = InsertAt(lb_order, i, node_id)
                    /\ lb_inserted' = Append(lb_inserted, node_id)
            /\ lb_last' = NoLast
    /\ UNCHANGED <<now, lb_config, current_index>>
    /\ LBFrame

\* remove_node
remove_node(node_id) ==
    /\ lb_nodes' = [n \in DOMAIN lb_nodes \ {node_id} |-> lb_nodes[n]]
    /\ lb_order' = Without(lb_order, node_id)
    /\ lb_inserted' = Without(lb_inserted, node_id)
    /\ lb_last' = IF node_id \in DOMAIN lb_nodes THEN NoLast ELSE lb_last
    /\ UNCHANGED <<now, lb_config, current_index>>
    /\ LBFrame

\* update_health: a node that is not registered is left out.
update_health(node_id, is_healthy) ==
    /\ node_id \in DOMAIN lb_nodes =>
            (~is_healthy => lb_nodes[node_id].error_count < MaxErrors)
    /\ lb_nodes' = IF node_id \in DOMAIN lb_nodes
                   THEN [lb_nodes EXCEPT ![node_id] =
                            [is_healthy |-> is_healthy,
                             error_count |-> IF is_healthy THEN 0 ELSE @.error_count + 1]]
                   ELSE lb_nodes
    /\ lb_last' = IF node_id \in DOMAIN lb_nodes THEN NoLast ELSE lb_last
    /\ UNCHANGED <<now, lb_config, lb_order, current_index, lb_inserted>>
    /\ LBFrame

\* A filter that lets every registered node through.
Healthy_All(nodes, order) == order

\* nodes.iter().filter(|(_, health)| health.is_healthy), in iteration order.
Healthy(nodes, order) == SelectSeq(order, LAMBDA n : nodes[n].is_healthy)

\* The connection maps handed to next_node: connection id -> messages_sent.
ConnectionMaps == UNION {[S -> 0..MaxLoad] : S \in SUBSET Nodes}

\* connections.iter().filter(|(_, conn)| conn.id() == node_id).count()
ConnCount(connections, node_id) == IF node_id \in DOMAIN connections THEN 1 ELSE 0

\* The sum of messages_sent over the connections whose id is node_id.
ConnLoad(connections, node_id) ==
    IF node_id \in DOMAIN connections THEN connections[node_id] ELSE 0

\* Iterator::min_by_key: the first of the elements with the least key.
MinByKey(seq, key(_)) ==
    LET i == CHOOSE j \in 1..Len(seq) :
                /\ \A k \in 1..Len(seq) : key(seq[j]) <= key(seq[k])
                /\ \A k \in 1..(j - 1) : key(seq[k]) > key(seq[j])
    IN seq[i]

\* round_robin: the index after the step.
round_robin_index(healthy) == (current_index + 1) % Len(healthy)

\* What the strategy returns for a non-empty list of healthy nodes.
Chosen(healthy, connections) ==
    CASE lb_config.strategy = "RoundRobin" ->
            healthy[round_robin_index(healthy) + 1]
      [] lb_config.strategy = "LeastConnections" ->
            MinByKey(healthy, LAMBDA n : ConnCount(connections, n))
      [] lb_config.strategy = "LeastLoad" ->
            MinByKey(healthy, LAMBDA n : ConnLoad(connections, n))

\* next_node under the read lock of `nodes`: Err(Connection) when no node is
\* registered or none is healthy, otherwise the node the strategy picks.
next_node_result(connections) ==
    LET healthy == Healthy(lb_nodes, lb_order)
    IN IF healthy = << >> THEN "Connection" ELSE Chosen(healthy, connections)

next_node(connections) ==
    /\ LET healthy == Healthy(lb_nodes, lb_order)
           result == next_node_result(connections)
       IN /\ current_index' = IF lb_config.strategy = "RoundRobin" /\ healthy # << >>
                              THEN round_robin_index(healthy) ELSE current_index
          /\ lb_last' = [result |-> result, prev |-> lb_last.result]
    /\ UNCHANGED <<now, lb_config, lb_nodes, lb_order, lb_inserted>>
    /\ LBFrame

NextBalancer ==
    \/ \E n \in Nodes : add_node(n)
    \/ \E n \in Nodes : remove_node(n)
    \/ \E n \in Nodes, h \in BOOLEAN : update_health(n, h)
    \/ \E m \in ConnectionMaps : next_node(m)

\* ------------------------------- ConnectionPool: admission of new connections
\* ConnectionPool::new builds a RateLimiter and a LoadBalancer when the
\* configuration has them.  The pool never registers a node with its balancer.
ADConfigs == [rate_limit : BOOLEAN, balance : BOOLEAN]
NoAdd == [op |-> "none", result |-> "none", changed |-> FALSE, over_limit |-> FALSE]

\* The pool's limiter admits one connection per client and window.
ADInit ==
    /\ ad_config \in ADConfigs
    /\ ad_last = NoAdd
    /\ rl_config.max_requests = 1

ADIdle ==
    /\ ad_config = [rate_limit |-> FALSE, balance |-> FALSE]
    /\ ad_last = NoAdd

\* RateLimiter::check_request run to completion at instant `at`: the bucket
\* pruned, and the stamp pushed when the bucket is under the limit.
check_request(map, c, at) ==
    LET m == entry(map, c)
        history == retain(m[c], at)
    IN IF Len(history) >= rl_config.max_requests
       THEN [ok |-> FALSE, requests |-> [m EXCEPT ![c] = history]]
       ELSE [ok |-> TRUE, requests |-> [m EXCEPT ![c] = Append(history, at)]]

\* The limiter would reject a check of this client made now.
OverItsLimit(id) ==
    Len(retain(entry(requests, id)[id], now)) >= rl_config.max_requests

\* The mapping or the set of running tasks is not what it was before the step.
PoolChanged == <<pool, readers, writers, spawned>>' # <<pool, readers, writers, spawned>>

\* The pool's connections as next_node reads them: connection ids are peer ids,
\* none of which is a node id.
PoolConnections == << >>

\* An insertion whatever the result.
Established_Anyway(result) == TRUE

\* The `?` of lines 191, 198 and 202: the function goes on only after Ok.
Established(result) == result = "Ok"

\* add_connection, lines 190-202: the balancer, then the limiter, then the
\* connect, each returning its error at once.
add_connection_result(id, connects) ==
    IF ad_config.balance /\ next_node_result(PoolConnections) = "Connection"
    THEN "Connection"
    ELSE IF ad_config.rate_limit /\ ~check_request(requests, id, now).ok
    THEN "RateLimit"
    ELSE IF ~connects THEN "Connection" ELSE "Ok"

\* ConnectionPool::add_connection; `connects` is the outcome of connect_async.
pool_add_connection(id, connects) ==
    /\ next_gen <= MaxAdds
    /\ LET result == add_connection_result(id, connects)
           reached_limiter ==
                ad_config.rate_limit /\
                ~(ad_config.balance /\ next_node_result(PoolConnections) = "Connection")
       IN /\ requests' = IF reached_limiter
                         THEN check_request(requests, id, now).requests
                         ELSE requests
          /\ IF Established(result)
             THEN insert_and_spawn(id)
             ELSE UNCHANGED <<pool, readers, writers, spawned, next_gen>>
          /\ ad_last' = [op |-> "add_connection", result |-> result,
                          changed |-> PoolChanged, over_limit |-> FALSE]
    /\ UNCHANGED <<now, frames_read, ad_config>>
    /\ UNCHANGED <<rl_config, rl_lock, call, janitor, rl_recording, admitted>>
    /\ AdmissionFrame

\* add_secure_connection, lines 276-282: the acceptor is built, the socket
\* connected, the TLS handshake made; neither the balancer nor the limiter is
\* consulted.
add_secure_connection_result(acceptor, connects, handshake) ==
    IF ~acceptor THEN "Security"
    ELSE IF ~connects THEN "Connection"
    ELSE IF ~handshake THEN "Security" ELSE "Ok"

\* ConnectionPool::add_secure_connection
pool_add_secure_connection(id, acceptor, connects, handshake) ==
    /\ next_gen <= MaxAdds
    /\ LET result == add_secure_connection_result(acceptor, connects, handshake)
       IN /\ IF Established(result)
             THEN insert_and_spawn(id)
             ELSE UNCHANGED <<pool, readers, writers, spawned, next_gen>>
          /\ ad_last' = [op |-> "add_secure_connection", result |-> result,
                          changed |-> PoolChanged,
                          over_limit |-> ad_config.rate_limit /\ OverItsLimit(id)]
    /\ UNCHANGED <<now, frames_read, ad_config>>
    /\ UNCHANGED rlVars
    /\ AdmissionFrame

\* Time passes, as far as the limiter's longest window.
admission_tick == now < MaxWindow /\ Tick

NextAdmission ==
    \/ admission_tick
    \/ \E id \in PeerIds, connects \in BOOLEAN : pool_add_connection(id, connects)
    \/ \E id \in PeerIds, acceptor, connects, handshake \in BOOLEAN :
            pool_add_secure_connection(id, acceptor, connects, handshake)

\* -------------------------------------------------- SecurityManager::authenticate
\* AuthMethod: a variant and its contents (a String or bytes).
AuthVariants == {"Token", "PublicKey", "Certificate", "Custom"}
AuthContents == {"a", "b", "c"}
AuthMethods == [variant : AuthVariants, contents : AuthContents]
NoAuth == [credentials |-> "none", result |-> "none"]

AUInit ==
    /\ auth_method \in AuthMethods
    /\ auth_last = NoAuth

AUIdle ==
    /\ auth_method = [variant |-> "Token", contents |-> "a"]
    /\ auth_last = NoAuth

\* valid == provided
SameContents(valid, provided) == valid = provided

\* The match of authenticate: Token and PublicKey compare contents, two
\* Certificates pass, every other pair is the `_` arm.
authenticate_result(configured, credentials) ==
    CASE configured.variant = "Token" /\ credentials.variant = "Token" ->
            IF SameContents(configured.contents, credentials.contents)
            THEN "Ok" ELSE "Security"
      [] configured.variant = "PublicKey" /\ credentials.variant = "PublicKey" ->
            IF SameContents(configured.contents, credentials.contents)
            THEN "Ok" ELSE "Security"
      [] configured.variant = "Certificate" /\ credentials.variant = "Certificate" -> "Ok"
      [] OTHER -> "Security"

\* SecurityManager::authenticate
authenticate(credentials) ==
    /\ auth_last' = [credentials |-> credentials,
                     result |-> authenticate_result(auth_method, credentials)]
    /\ UNCHANGED <<now, auth_method>>
    /\ AUFrame

NextAuth ==
    \E credentials \in AuthMethods : authenticate(credentials)

\* ------------------------------------------------------------ Agent::send_message
\* The agent's own id and the recipients it writes to.
AgentId == "a1"
Recipients == {"a1", "a2"}
\* What the Protocol implementation answers: validate_message, process_message.
ValidateResults == {"Ok", "Protocol"}
ProcessResults == {"Some", "None", "Protocol"}
NoSendMessage ==
    [to |-> "none", validate |-> "none", process |-> "none", calls |-> << >>,
     enqueued |-> FALSE, result |-> "none"]

\* Agent::new: an empty pool.
AGInit ==
    /\ ag_pool = {}
    /\ ag_outbound = << >>
    /\ ag_last = NoSendMessage

AGIdle == AGInit

\* Agent::connect, when add_connection succeeds: the connection is stored under
\* the agent's own id.
agent_connect ==
    /\ ag_pool' = ag_pool \cup {AgentId}
    /\ ag_last' = NoSendMessage
    /\ UNCHANGED <<now, ag_outbound>>
    /\ AGFrame

\* connections.get(&self.id), line 151
ConnectionKey(to) == AgentId

\* Agent::send_message; `sends` is whether Connection::send enqueues the message.
send_message(to, validate, process, sends) ==
    /\ Len(ag_outbound) < MaxFrames
    /\ LET connected == ConnectionKey(to) \in ag_pool
           calls == IF validate # "Ok" THEN <<"validate_message">>
                    ELSE IF process # "Some" \/ ~connected
                    THEN <<"validate_message", "process_message">>
                    ELSE <<"validate_message", "process_message", "send">>
           result == IF validate # "Ok" THEN "Protocol"
                     ELSE IF process = "Protocol" THEN "Protocol"
                     ELSE IF process = "None" THEN "Ok"
                     ELSE IF ~connected THEN "Connection"
                     ELSE IF sends THEN "Ok" ELSE "Send"
           sent == Len(calls) = 3 /\ sends
       IN /\ ag_outbound' = IF sent THEN Append(ag_outbound, to) ELSE ag_outbound
          /\ ag_last' = [to |-> to, validate |-> validate, process |-> process,
                         calls |-> calls, enqueued |-> sent, result |-> result]
    /\ UNCHANGED <<now, ag_pool>>
    /\ AGFrame

NextAgent ==
    \/ agent_connect
    \/ \E to \in Recipients, validate \in ValidateResults, process \in ProcessResults,
          sends \in BOOLEAN : send_message(to, validate, process, sends)

\* ---------------------------------------------------- deepseek::RateLimiter
DLClients == {"c1", "c2"}
TokenCounts == {1, 2}
NoError == "none"
NoLimiterCall == [op |-> "none", result |-> "none", outstanding |-> 0, all_checked |-> TRUE]

\* RateLimitConfig.  The day and token limits are small enough to be reached by
\* MaxRecorded requests; requests_per_minute is at least 1 (with 0 no request is
\* ever admitted and the interval [1, requests_per_minute] is empty).
DLConfigs ==
    [requests_per_minute : 1..MaxPerMinute,
     requests_per_day : {MaxRecorded},
     tokens_per_minute : {3},
     max_parallel_requests : 1..MaxParallel,
     adaptive_limiting : BOOLEAN]

\* RateLimiter::new with a drawn configuration.
DLInit ==
    /\ dl_config \in DLConfigs
    /\ minute_requests = << >>
    /\ day_requests = << >>
    /\ minute_tokens = << >>
    /\ active_requests = 0
    /\ last_error = NoError
    /\ adaptive_limit = dl_config.requests_per_minute
    /\ dl_client = [c \in DLClients |-> [held |-> 0, checked |-> FALSE]]
    /\ dl_dropping = 0
    /\ dl_last = NoLimiterCall

DLIdle ==
    /\ DLInit
    /\ dl_config = [requests_per_minute |-> 1, requests_per_day |-> MaxRecorded,
                    tokens_per_minute |-> 3, max_parallel_requests |-> 1,
                    adaptive_limiting |-> FALSE]

\* tokens.iter().map(|t| t.token_count).sum()
RECURSIVE total_tokens(_)
total_tokens(tokens) ==
    IF tokens = << >> THEN 0 ELSE Head(tokens) + total_tokens(Tail(tokens))

\* The limit check_request compares minute_requests with (lines 175-179).
current_limit ==
    IF dl_config.adaptive_limiting THEN adaptive_limit ELSE dl_config.requests_per_minute

\* check_request, lines 162-213: the first limit that is reached decides.
check_request_result(token_count) ==
    IF active_requests >= dl_config.max_parallel_requests THEN "RateLimitExceeded"
    ELSE IF Len(minute_requests) >= current_limit THEN "RateLimitExceeded"
    ELSE IF Len(day_requests) >= dl_config.requests_per_day THEN "RateLimitExceeded"
    ELSE IF total_tokens(minute_tokens) + token_count > dl_config.tokens_per_minute
         THEN "RateLimitExceeded"
    ELSE "Ok"

\* The RequestGuards that have been handed out and not dropped.
Outstanding == dl_client["c1"].held + dl_client["c2"].held

\* RateLimiter::check_request by client c.
dl_check_request(c, token_count) ==
    /\ dl_last' = [op |-> "check_request", result |-> check_request_result(token_count),
                   outstanding |-> Outstanding, all_checked |-> dl_last.all_checked]
    /\ dl_client' = [dl_client EXCEPT ![c].checked = check_request_result(token_count) = "Ok"]
    /\ UNCHANGED <<now, dl_config, minute_requests, day_requests, minute_tokens,
                   active_requests, last_error, adaptive_limit, dl_dropping>>
    /\ DLFrame

\* RateLimiter::record_request: the request is pushed onto the three histories.
dl_record_request(token_count) ==
    /\ Len(day_requests) < MaxRecorded
    /\ minute_requests' = Append(minute_requests, token_count)
    /\ day_requests' = Append(day_requests, token_count)
    /\ minute_tokens' = Append(minute_tokens, token_count)
    /\ UNCHANGED <<now, dl_config, active_requests, last_error, adaptive_limit,
                   dl_client, dl_dropping, dl_last>>
    /\ DLFrame

\* The result of acquire (lines 242-249): Ok(RequestGuard), whatever the count.
acquire_result(active) == "Ok"

\* RateLimiter::acquire by client c: active_requests is incremented under its lock
\* and a guard is returned.
dl_acquire(c) ==
    /\ Outstanding + dl_dropping < MaxGuards
    /\ active_requests' = active_requests + 1
    /\ dl_client' = [dl_client EXCEPT
            ![c].held = IF acquire_result(active_requests) = "Ok" THEN @ + 1 ELSE @,
            ![c].checked = FALSE]
    /\ dl_last' = [op |-> "acquire", result |-> acquire_result(active_requests),
                   outstanding |-> Outstanding,
                   all_checked |-> dl_last.all_checked /\ dl_client[c].checked]
    /\ UNCHANGED <<now, dl_config, minute_requests, day_requests, minute_tokens,
                   last_error, adaptive_limit, dl_dropping>>
    /\ DLFrame

\* RequestGuard::drop, lines 334-339: the guard is gone and a task is spawned.
dl_guard_drop(c) ==
    /\ dl_client[c].held > 0
    /\ dl_client' = [dl_client EXCEPT ![c].held = @ - 1]
    /\ dl_dropping' = dl_dropping + 1
    /\ UNCHANGED <<now, dl_config, minute_requests, day_requests, minute_tokens,
                   active_requests, last_error, adaptive_limit, dl_last>>
    /\ DLFrame

\* u32::saturating_sub
saturating_sub(a, b) == IF a >= b THEN a - b ELSE 0

\* The task spawned by RequestGuard::drop, lines 340-341.
dl_drop_task ==
    /\ dl_dropping > 0
    /\ dl_dropping' = dl_dropping - 1
    /\ active_requests' = saturating_sub(active_requests, 1)
    /\ UNCHANGED <<now, dl_config, minute_requests, day_requests, minute_tokens,
                   last_error, adaptive_limit, dl_client, dl_last>>
    /\ DLFrame

\* (*limit as f64 * 0.8).max(1.0) as u32.  The double nearest to 0.8 lies above
\* 0.8, so for a u32 limit the product is never rounded below an integer that
\* 0.8 * limit reaches; the cast truncates.
decreased_Unfloored(limit) == (limit * 8) \div 10
decreased(limit) ==
    LET scaled == (limit * 8) \div 10
    IN IF scaled >= 1 THEN scaled ELSE 1

\* (*limit as f64 * 1.1).min(requests_per_minute as f64) as u32; the double
\* nearest to 1.1 lies above 1.1 and the cast truncates.
increased(limit, ceiling) ==
    LET scaled == (limit * 11) \div 10
    IN IF scaled <= ceiling THEN scaled ELSE ceiling

DLErrors == {"e1"}

\* RateLimiter::record_error, lines 252-267.
dl_record_error(error) ==
    /\ last_error' = error
    /\ adaptive_limit' = IF dl_config.adaptive_limiting
                         THEN decreased(adaptive_limit) ELSE adaptive_limit
    /\ UNCHANGED <<now, dl_config, minute_requests, day_requests, minute_tokens,
                   active_requests, dl_client, dl_dropping, dl_last>>
    /\ DLFrame

\* One round of the cleanup task, lines 129-157.  The ages of the recorded
\* requests are not kept: any number k of the oldest entries may have left the
\* minute; none is a day old.
dl_cleanup ==
    /\ \E k \in 0..Len(minute_requests) :
            /\ minute_requests' = SubSeq(minute_requests, k + 1, Len(minute_requests))
            /\ minute_tokens' = SubSeq(minute_tokens, k + 1, Len(minute_tokens))
    /\ day_requests' = day_requests
    /\ adaptive_limit' =
            IF dl_config.adaptive_limiting /\ adaptive_limit < dl_config.requests_per_minute
            THEN increased(adaptive_limit, dl_config.requests_per_minute)
            ELSE adaptive_limit
    /\ UNCHANGED <<now, dl_config, active_requests, last_error, dl_client,
                   dl_dropping, dl_last>>
    /\ DLFrame

NextAdaptive ==
    \/ \E error \in DLErrors : dl_record_error(error)
    \/ dl_cleanup
    \/ \E token_count \in TokenCounts : dl_check_request("c1", token_count)
    \/ \E token_count \in TokenCounts : dl_record_request(token_count)

NextSlots ==
    \/ \E c \in DLClients, token_count \in TokenCounts : dl_check_request(c, token_count)
    \/ \E c \in DLClients : dl_acquire(c)
    \/ \E c \in DLClients : dl_guard_drop(c)
    \/ dl_drop_task

\* -------------------------------- SecurityManager: the locks of the two keys
\* current_key and previous_key are tokio RwLocks.  A tokio RwLock queues its
\* waiters first-in first-out: while a writer waits, no new reader is admitted.
KLCallers == {"d1", "d2"}
NoDecryptCall == [pc |-> "idle", m |-> "none", nonce |-> 0]

KLInit ==
    /\ prev_writer = FALSE
    /\ curr_readers = 0
    /\ kl_rotation = "asleep"
    /\ kl_decrypt = [d \in KLCallers |-> NoDecryptCall]

KLIdle == KLInit

\* start_key_rotation, lines 106-109: the interval ticks and the new key is made.
rotation_tick ==
    /\ kl_rotation = "asleep"
    /\ next_rotation <= now
    /\ next_rotation' = next_rotation + sec_config.key_rotation_interval
    /\ kl_rotation' = "lock_previous"
    /\ UNCHANGED <<now, sec_config, current_key, previous_key, sealed, last_decrypt,
                   prev_writer, curr_readers, kl_decrypt>>
    /\ KeyLockFrame

\* start_key_rotation, lines 111-112: previous_key.write() is granted and
\* current_key.write() is asked for.
rotation_lock_previous ==
    /\ kl_rotation = "lock_previous"
    /\ ~prev_writer
    /\ prev_writer' = TRUE
    /\ kl_rotation' = "lock_current"
    /\ UNCHANGED <<now, secVars, curr_readers, kl_decrypt>>
    /\ KeyLockFrame

\* start_key_rotation, lines 112-114: current_key.write() is granted once no
\* reader holds the lock; the keys are moved and both guards dropped.
rotation_replace ==
    /\ kl_rotation = "lock_current"
    /\ curr_readers = 0
    /\ previous_key' = current_key
    /\ current_key' = generate_key(now)
    /\ prev_writer' = FALSE
    /\ kl_rotation' = "asleep"
    /\ UNCHANGED <<now, sec_config, next_rotation, sealed, last_decrypt, curr_readers,
                   kl_decrypt>>
    /\ KeyLockFrame

\* current_key.read() can be granted: no writer holds the lock or waits for it.
CanReadCurrent == kl_rotation # "lock_current"

\* previous_key.read() can be granted.
CanReadPrevious == ~prev_writer

\* What decrypt returns, as last_decrypt records it.
DecryptReturn(m, nonce, r) ==
    [result |-> IF r = "Ok" THEN "Ok" ELSE "Err",
     kind |-> IF r = "Ok" THEN "none" ELSE r,
     age |-> now - m.at,
     nonce_ok |-> nonce = m.nonce,
     rotated |-> next_rotation > now]

\* SecurityManager::encrypt, which (with encryption enabled) reads current_key
\* under its read lock.
locked_encrypt(nonce) ==
    /\ sec_config.encrypt_messages => CanReadCurrent
    /\ Cardinality(sealed) < MaxSealed
    /\ sealed' = sealed \cup {[text |-> encrypt(nonce), nonce |-> nonce, at |-> now]}
    /\ UNCHANGED <<now, sec_config, current_key, previous_key, next_rotation, last_decrypt,
                   klVars>>
    /\ KeyLockFrame

\* decrypt, lines 161-167: without encryption the data is returned at once;
\* otherwise the call goes on to current_key.read().
decrypt_start(d, m, nonce) ==
    /\ kl_decrypt[d].pc = "idle"
    /\ m \in sealed
    /\ IF ~sec_config.encrypt_messages
       THEN /\ last_decrypt' = DecryptReturn(m, nonce, "Ok")
            /\ UNCHANGED kl_decrypt
       ELSE /\ kl_decrypt' = [kl_decrypt EXCEPT ![d] = [pc |-> "current", m |-> m, nonce |-> nonce]]
            /\ UNCHANGED last_decrypt
    /\ UNCHANGED <<now, sec_config, current_key, previous_key, next_rotation, sealed,
                   prev_writer, curr_readers, kl_rotation>>
    /\ KeyLockFrame

\* decrypt, lines 170-173: the read lock of current_key is granted; if the current
\* key opens the data the call returns, otherwise it keeps the guard and goes on
\* to previous_key.read().
decrypt_current(d) ==
    /\ kl_decrypt[d].pc = "current"
    /\ CanReadCurrent
    /\ LET c == kl_decrypt[d]
       IN IF opens(current_key, c.nonce, c.m.text)
          THEN /\ last_decrypt' = DecryptReturn(c.m, c.nonce, "Ok")
               /\ kl_decrypt' = [kl_decrypt EXCEPT ![d] = NoDecryptCall]
               /\ UNCHANGED curr_readers
          ELSE /\ curr_readers' = curr_readers + 1
               /\ kl_decrypt' = [kl_decrypt EXCEPT ![d].pc = "previous"]
               /\ UNCHANGED last_decrypt
    /\ UNCHANGED <<now, sec_config, current_key, previous_key, next_rotation, sealed,
                   prev_writer, kl_rotation>>
    /\ KeyLockFrame

\* decrypt, lines 175-184: the read lock of previous_key is granted; the previous
\* key, if there is one, is tried, the call returns and drops both guards.
decrypt_previous(d) ==
    /\ kl_decrypt[d].pc = "previous"
    /\ CanReadPrevious
    /\ LET c == kl_decrypt[d]
           r == IF previous_key # NoKey /\ opens(previous_key, c.nonce, c.m.text)
                THEN "Ok" ELSE "Security"
       IN last_decrypt' = DecryptReturn(c.m, c.nonce, r)
    /\ curr_readers' = curr_readers - 1
    /\ kl_decrypt' = [kl_decrypt EXCEPT ![d] = NoDecryptCall]
    /\ UNCHANGED <<now, sec_config, current_key, previous_key, next_rotation, sealed,
                   prev_writer, kl_rotation>>
    /\ KeyLockFrame

RotationSteps == rotation_tick \/ rotation_lock_previous \/ rotation_replace
DecryptSteps(d) == decrypt_current(d) \/ decrypt_previous(d)

NextKeyLocks ==
    \/ Tick
    \/ rotation_tick
    \/ rotation_lock_previous
    \/ rotation_replace
    \/ \E nonce \in Nonces : locked_encrypt(nonce)
    \/ \E d \in KLCallers, m \in sealed, nonce \in Nonces : decrypt_start(d, m, nonce)
    \/ \E d \in KLCallers : decrypt_current(d)
    \/ \E d \in KLCallers : decrypt_previous(d)

\* ------------------------------------------------------------------ MeapServer
\* The accepted connections, each served by one handle_connection task, and the
\* agent ids that appear in `from` and `to`.
ServerConns == {"k1", "k2"}
AgentIds == {"a", "b"}
\* mpsc::channel(32), server/mod.rs line 55
ChannelCapacity == 32
NoHandlerMessage == [from |-> "none", to |-> "none"]

\* MeapServer::new, and start having accepted the connections.
SVInit ==
    /\ sv_agents = {}
    /\ sv_connections = << >>
    /\ sv_handler = [k \in ServerConns |-> [open |-> TRUE, pc |-> "recv", message |-> NoHandlerMessage]]
    /\ sv_channel = [k \in ServerConns |-> 0]
    /\ sv_socket = [k \in ServerConns |-> 0]

SVIdle == SVInit

\* A task holds connections.read() across its send (lines 75-76).
ConnectionsReadHeld == \E k \in ServerConns : sv_handler[k].pc = "send"

\* handle_connection, lines 58-69 and 75: a text frame that decodes to a message
\* is taken from the socket.  A sender not yet in `agents` is registered there
\* and the message is used up; otherwise the message goes on to its target.
sv_receive(k, from, to) ==
    /\ sv_handler[k].open
    /\ sv_handler[k].pc = "recv"
    /\ IF from \notin sv_agents
       THEN /\ sv_agents' = sv_agents \cup {from}
            /\ sv_handler' = [sv_handler EXCEPT ![k].pc = "register",
                                                ![k].message = [from |-> from, to |-> to]]
       ELSE /\ sv_handler' = [sv_handler EXCEPT ![k].pc = "route",
                                                ![k].message = [from |-> from, to |-> to]]
            /\ UNCHANGED sv_agents
    /\ UNCHANGED <<now, sv_connections, sv_channel, sv_socket>>
    /\ SVFrame

\* handle_connection, lines 70-71: connections.write() is granted once no task
\* holds the read lock; tx.clone() is stored under the sender's id.
sv_register(k) ==
    /\ sv_handler[k].pc = "register"
    /\ ~ConnectionsReadHeld
    /\ LET id == sv_handler[k].message.from
       IN sv_connections' = [x \in DOMAIN sv_connections \cup {id} |->
                                IF x = id THEN k ELSE sv_connections[x]]
    /\ sv_handler' = [sv_handler EXCEPT ![k].pc = "recv", ![k].message = NoHandlerMessage]
    /\ UNCHANGED <<now, sv_agents, sv_channel, sv_socket>>
    /\ SVFrame

\* handle_connection, line 75: the target is looked up under connections.read();
\* without an entry the message is dropped.
sv_route(k) ==
    /\ sv_handler[k].pc = "route"
    /\ sv_handler' =
            IF sv_handler[k].message.to \in DOMAIN sv_connections
            THEN [sv_handler EXCEPT ![k].pc = "send"]
            ELSE [sv_handler EXCEPT ![k].pc = "recv", ![k].message = NoHandlerMessage]
    /\ UNCHANGED <<now, sv_agents, sv_connections, sv_channel, sv_socket>>
    /\ SVFrame

\* handle_connection, line 76: target_tx.send(..).await completes.  With the
\* target's receiver dropped it fails at once and the error is discarded; with
\* room in the channel the frame is queued; with a full channel it waits.
sv_send(k) ==
    /\ sv_handler[k].pc = "send"
    /\ LET target == sv_connections[sv_handler[k].message.to]
       IN IF ~sv_handler[target].open
          THEN UNCHANGED sv_channel
          ELSE /\ sv_channel[target] < ChannelCapacity
               /\ sv_channel' = [sv_channel EXCEPT ![target] = @ + 1]
    /\ sv_handler' = [sv_handler EXCEPT ![k].pc = "recv", ![k].message = NoHandlerMessage]
    /\ UNCHANGED <<now, sv_agents, sv_connections, sv_socket>>
    /\ SVFrame

\* handle_connection, lines 58, 80 and 85: a Close frame or the end of the socket
\* ends the task; ws_sender, tx and rx are dropped with it.  The entries of
\* agents and connections stay.
sv_close(k) ==
    /\ sv_handler[k].open
    /\ sv_handler[k].pc = "recv"
    /\ sv_handler' = [sv_handler EXCEPT ![k].open = FALSE]
    /\ sv_channel' = [sv_channel EXCEPT ![k] = 0]
    /\ UNCHANGED <<now, sv_agents, sv_connections, sv_socket>>
    /\ SVFrame

\* The steps a handler takes by itself once it has a message in hand.
HandlerSteps(k) == sv_register(k) \/ sv_route(k) \/ sv_send(k)

NextServer ==
    \/ \E k \in ServerConns, from \in AgentIds, to \in AgentIds : sv_receive(k, from, to)
    \/ \E k \in ServerConns : sv_register(k)
    \/ \E k \in ServerConns : sv_route(k)
    \/ \E k \in ServerConns : sv_send(k)
    \/ \E k \in ServerConns : sv_close(k)

\* ---------------------------------------------------------------- StreamHandler
Bytes == {0, 1}
DataInputs == UNION {[1..n -> Bytes] : n \in 1..MaxData}
NoReturn == [kind |-> "none", data |-> << >>]

\* StreamHandler::new for the sending handler; no stream has been created yet.
SHInit ==
    /\ next_index = 0
    /\ sh_messages = << >>
    /\ sh_data = << >>
    /\ sh_pending = {}
    /\ sh_buffer = << >>
    /\ sh_last = NoReturn
    /\ sh_calls = 0

SHIdle == SHInit

\* data.chunks(chunk_size): slices of chunk_size bytes, the last one shorter if
\* the length is not a multiple.
RECURSIVE chunks(_, _)
chunks(data, chunk_size) ==
    IF data = << >> THEN << >>
    ELSE IF Len(data) <= chunk_size THEN <<data>>
    ELSE <<SubSeq(data, 1, chunk_size)>>
            \o chunks(SubSeq(data, chunk_size + 1, Len(data)), chunk_size)

\* The index create_stream_message gives the chunk at position i (from 0) of a
\* call that starts with next_index = first: the counter runs on from call to
\* call.
chunk_index(first, i) == first + i

\* create_stream_message, lines 28-55: the StreamChunks carried by the messages.
stream_chunks(first, data, chunk_size) ==
    LET parts == chunks(data, chunk_size)
        total_chunks == Len(parts)
    IN [p \in 1..total_chunks |->
            [index |-> chunk_index(first, p - 1),
             data |-> parts[p],
             final_chunk |-> (p - 1) = total_chunks - 1]]

\* A call of create_stream_message on the sending handler; its messages are to be
\* fed to a fresh receiving handler.
create_stream_message(data, chunk_size) ==
    /\ sh_pending = {}
    /\ sh_calls < MaxStreams
    /\ sh_messages' = stream_chunks(next_index, data, chunk_size)
    /\ next_index' = next_index + Len(chunks(data, chunk_size))
    /\ sh_data' = data
    /\ sh_pending' = 1..Len(chunks(data, chunk_size))
    /\ sh_buffer' = << >>
    /\ sh_last' = NoReturn
    /\ sh_calls' = sh_calls + 1
    /\ UNCHANGED now
    /\ SHFrame

\* chunks.sort_by_key(|c| c.index): a stable insertion of each chunk in turn.
RECURSIVE insert_by_index(_, _)
insert_by_index(sorted, chunk) ==
    IF sorted = << >> THEN <<chunk>>
    ELSE IF chunk.index < Head(sorted).index THEN <<chunk>> \o sorted
    ELSE <<Head(sorted)>> \o insert_by_index(Tail(sorted), chunk)

RECURSIVE sort_by_index(_)
sort_by_index(buffer) ==
    IF buffer = << >> THEN << >>
    ELSE insert_by_index(sort_by_index(SubSeq(buffer, 1, Len(buffer) - 1)),
                         buffer[Len(buffer)])

\* data.extend(chunk.data) over the sorted chunks.
RECURSIVE concat_data(_)
concat_data(sorted) ==
    IF sorted = << >> THEN << >> ELSE Head(sorted).data \o concat_data(Tail(sorted))

\* process_stream_chunk, lines 62-66: a final chunk is in the buffer and every
\* index from 0 to its index is.
stream_complete(buffer) ==
    LET finals == SelectSeq(buffer, LAMBDA c : c.final_chunk)
    IN /\ finals # << >>
       /\ \A i \in 0..Head(finals).index : \E j \in 1..Len(buffer) : buffer[j].index = i

\* process_stream_chunk: what it returns and the buffer it leaves.
process_chunk_result(buffer, chunk) ==
    LET pushed == Append(buffer, chunk)
    IN IF stream_complete(pushed)
       THEN [buffer |-> << >>,
             return |-> [kind |-> "Some", data |-> concat_data(sort_by_index(pushed))]]
       ELSE [buffer |-> pushed, return |-> [kind |-> "None", data |-> << >>]]

\* The message at position p arrives and its chunk is given to the receiving
\* handler's process_stream_chunk.
process_stream_chunk(p) ==
    /\ p \in sh_pending
    /\ sh_pending' = sh_pending \ {p}
    /\ sh_buffer' = process_chunk_result(sh_buffer, sh_messages[p]).buffer
    /\ sh_last' = process_chunk_result(sh_buffer, sh_messages[p]).return
    /\ UNCHANGED <<now, next_index, sh_messages, sh_data, sh_calls>>
    /\ SHFrame

NextStreamHandler ==
    \/ \E data \in DataInputs, chunk_size \in 1..MaxData : create_stream_message(data, chunk_size)
    \/ \E p \in 1..MaxData : process_stream_chunk(p)

\* The admissions of sequential calls are recorded; those of concurrent calls are not.
InitRateSeq ==
    now = 0 /\ RLInit /\ rl_recording /\ CBIdle /\ ConnIdle /\ DSIdle /\ SecIdle /\ StIdle /\ PHIdle /\ PoolIdle /\ RCIdle /\ DTIdle /\ LBIdle /\ ADIdle /\ AUIdle /\ AGIdle /\ DLIdle /\ KLIdle /\ SVIdle /\ SHIdle
InitRate ==
    now = 0 /\ RLInit /\ ~rl_recording /\ CBIdle /\ ConnIdle /\ DSIdle /\ SecIdle /\ StIdle /\ PHIdle /\ PoolIdle /\ RCIdle /\ DTIdle /\ LBIdle /\ ADIdle /\ AUIdle /\ AGIdle /\ DLIdle /\ KLIdle /\ SVIdle /\ SHIdle
InitBreaker ==
    now = 0 /\ RLIdle /\ CBInit /\ ConnIdle /\ DSIdle /\ SecIdle /\ StIdle /\ PHIdle /\ PoolIdle /\ RCIdle /\ DTIdle /\ LBIdle /\ ADIdle /\ AUIdle /\ AGIdle /\ DLIdle /\ KLIdle /\ SVIdle /\ SHIdle
InitConn ==
    now = 0 /\ RLIdle /\ CBIdle /\ ConnInit /\ DSIdle /\ SecIdle /\ StIdle /\ PHIdle /\ PoolIdle /\ RCIdle /\ DTIdle /\ LBIdle /\ ADIdle /\ AUIdle /\ AGIdle /\ DLIdle /\ KLIdle /\ SVIdle /\ SHIdle
InitDeepseek ==
    now = 0 /\ RLIdle /\ CBIdle /\ ConnIdle /\ DSInit /\ SecIdle /\ StIdle /\ PHIdle /\ PoolIdle /\ RCIdle /\ DTIdle /\ LBIdle /\ ADIdle /\ AUIdle /\ AGIdle /\ DLIdle /\ KLIdle /\ SVIdle /\ SHIdle
InitSecurity ==
    now = 0 /\ RLIdle /\ CBIdle /\ ConnIdle /\ DSIdle /\ SecInit /\ StIdle /\ PHIdle /\ PoolIdle /\ RCIdle /\ DTIdle /\ LBIdle /\ ADIdle /\ AUIdle /\ AGIdle /\ DLIdle /\ KLIdle /\ SVIdle /\ SHIdle
InitStream ==
    now = 0 /\ RLIdle /\ CBIdle /\ ConnIdle /\ DSIdle /\ SecIdle /\ StInit /\ PHIdle /\ PoolIdle /\ RCIdle /\ DTIdle /\ LBIdle /\ ADIdle /\ AUIdle /\ AGIdle /\ DLIdle /\ KLIdle /\ SVIdle /\ SHIdle
InitProtocol ==
    now = 0 /\ RLIdle /\ CBIdle /\ ConnIdle /\ DSIdle /\ SecIdle /\ StIdle /\ PHInit /\ PoolIdle /\ RCIdle /\ DTIdle /\ LBIdle /\ ADIdle /\ AUIdle /\ AGIdle /\ DLIdle /\ KLIdle /\ SVIdle /\ SHIdle
InitPool ==
    now = 0 /\ RLIdle /\ CBIdle /\ ConnIdle /\ DSIdle /\ SecIdle /\ StIdle /\ PHIdle /\ PoolInit /\ RCIdle /\ DTIdle /\ LBIdle /\ ADIdle /\ AUIdle /\ AGIdle /\ DLIdle /\ KLIdle /\ SVIdle /\ SHIdle
InitReconnect ==
    now = 0 /\ RLIdle /\ CBIdle /\ ConnIdle /\ DSIdle /\ SecIdle /\ StIdle /\ PHIdle /\ PoolIdle /\ RCInit /\ DTIdle /\ LBIdle /\ ADIdle /\ AUIdle /\ AGIdle /\ DLIdle /\ KLIdle /\ SVIdle /\ SHIdle
InitDeepseekTasks ==
    now = 0 /\ RLIdle /\ CBIdle /\ ConnIdle /\ DSTaskInit /\ SecIdle /\ StIdle /\ PHIdle /\ PoolIdle /\ RCIdle /\ DTIdle /\ LBIdle /\ ADIdle /\ AUIdle /\ AGIdle /\ DLIdle /\ KLIdle /\ SVIdle /\ SHIdle
InitBalancer ==
    now = 0 /\ RLIdle /\ CBIdle /\ ConnIdle /\ DSIdle /\ SecIdle /\ StIdle /\ PHIdle /\ PoolIdle /\ RCIdle /\ DTIdle /\ LBInit /\ ADIdle /\ AUIdle /\ AGIdle /\ DLIdle /\ KLIdle /\ SVIdle /\ SHIdle
InitAdmission ==
    now = 0 /\ RLInit /\ ~rl_recording /\ CBIdle /\ ConnIdle /\ DSIdle /\ SecIdle /\ StIdle /\ PHIdle /\ PoolInit /\ RCIdle /\ DTIdle /\ LBIdle /\ ADInit /\ AUIdle /\ AGIdle /\ DLIdle /\ KLIdle /\ SVIdle /\ SHIdle
InitAuth ==
    now = 0 /\ RLIdle /\ CBIdle /\ ConnIdle /\ DSIdle /\ SecIdle /\ StIdle /\ PHIdle /\ PoolIdle /\ RCIdle /\ DTIdle /\ LBIdle /\ ADIdle /\ AUInit /\ AGIdle /\ DLIdle /\ KLIdle /\ SVIdle /\ SHIdle
InitAgent ==
    now = 0 /\ RLIdle /\ CBIdle /\ ConnIdle /\ DSIdle /\ SecIdle /\ StIdle /\ PHIdle /\ PoolIdle /\ RCIdle /\ DTIdle /\ LBIdle /\ ADIdle /\ AUIdle /\ AGInit /\ DLIdle /\ KLIdle /\ SVIdle /\ SHIdle
InitAdaptive ==
    now = 0 /\ RLIdle /\ CBIdle /\ ConnIdle /\ DSIdle /\ SecIdle /\ StIdle /\ PHIdle /\ PoolIdle /\ RCIdle /\ DTIdle /\ LBIdle /\ ADIdle /\ AUIdle /\ AGIdle /\ DLInit /\ dl_config.max_parallel_requests = 1 /\ KLIdle /\ SVIdle /\ SHIdle
InitSlots ==
    now = 0 /\ RLIdle /\ CBIdle /\ ConnIdle /\ DSIdle /\ SecIdle /\ StIdle /\ PHIdle /\ PoolIdle /\ RCIdle /\ DTIdle /\ LBIdle /\ ADIdle /\ AUIdle /\ AGIdle /\ DLInit /\ dl_config.requests_per_minute = 1 /\ ~dl_config.adaptive_limiting /\ KLIdle /\ SVIdle /\ SHIdle
InitKeyLocks ==
    now = 0 /\ RLIdle /\ CBIdle /\ ConnIdle /\ DSIdle /\ SecInit /\ StIdle /\ PHIdle /\ PoolIdle /\ RCIdle /\ DTIdle /\ LBIdle /\ ADIdle /\ AUIdle /\ AGIdle /\ DLIdle /\ KLInit /\ SVIdle /\ SHIdle
InitExecute ==
    now = 0 /\ RLIdle /\ CBIdle /\ ConnIdle /\ DSInit /\ SecIdle /\ StIdle /\ PHIdle /\ PoolIdle /\ RCIdle /\ DTIdle /\ LBIdle /\ ADIdle /\ AUIdle /\ AGIdle /\ DLIdle /\ KLIdle /\ SVIdle /\ SHIdle
InitServer ==
    now = 0 /\ RLIdle /\ CBIdle /\ ConnIdle /\ DSIdle /\ SecIdle /\ StIdle /\ PHIdle /\ PoolIdle /\ RCIdle /\ DTIdle /\ LBIdle /\ ADIdle /\ AUIdle /\ AGIdle /\ DLIdle /\ KLIdle /\ SVInit /\ SHIdle
InitStreamHandler ==
    now = 0 /\ RLIdle /\ CBIdle /\ ConnIdle /\ DSIdle /\ SecIdle /\ StIdle /\ PHIdle /\ PoolIdle /\ RCIdle /\ DTIdle /\ LBIdle /\ ADIdle /\ AUIdle /\ AGIdle /\ DLIdle /\ KLIdle /\ SVIdle /\ SHInit

SpecRateSeq == InitRateSeq /\ [][NextRateSeq]_vars
SpecRate == InitRate /\ [][NextRate]_vars
SpecBreaker == InitBreaker /\ [][NextBreaker]_vars
SpecConn == InitConn /\ [][NextConn]_vars
SpecDeepseek == InitDeepseek /\ [][NextDeepseek]_vars
SpecSecurity == InitSecurity /\ [][NextSecurity]_vars
SpecStream == InitStream /\ [][NextStream]_vars
SpecProtocol == InitProtocol /\ [][NextProtocol]_vars
SpecPool == InitPool /\ [][NextPool]_vars
SpecReconnect == InitReconnect /\ [][NextReconnect]_vars
SpecDeepseekTasks == InitDeepseekTasks /\ [][NextDeepseekTasks]_vars
SpecBalancer == InitBalancer /\ [][NextBalancer]_vars
SpecAdmission == InitAdmission /\ [][NextAdmission]_vars
SpecAuth == InitAuth /\ [][NextAuth]_vars
SpecAgent == InitAgent /\ [][NextAgent]_vars
SpecAdaptive == InitAdaptive /\ [][NextAdaptive]_vars
SpecSlots == InitSlots /\ [][NextSlots]_vars
SpecKeyLocks == InitKeyLocks /\ [][NextKeyLocks]_vars
SpecExecute == InitExecute /\ [][NextExecute]_vars
SpecServer == InitServer /\ [][NextServer]_vars
SpecStreamHandler == InitStreamHandler /\ [][NextStreamHandler]_vars

\* The rotation task and every decrypt call are scheduled whenever they can go on.
SpecKeyLocksLive ==
    /\ InitKeyLocks /\ [][NextKeyLocks]_vars
    /\ WF_vars(RotationSteps)
    /\ \A d \in KLCallers : WF_vars(DecryptSteps(d))

\* Callers keep sending requests through execute and the recovery task keeps running.
SpecExecuteLive ==
    /\ InitExecute /\ [][NextExecute]_vars
    /\ WF_vars(ds_execute("Ok"))
    /\ WF_vars(ds_recovery_tick)

\* Every connection's handler is scheduled whenever it can go on.
SpecServerLive ==
    /\ InitServer /\ [][NextServer]_vars
    /\ \A k \in ServerConns : WF_vars(HandlerSteps(k))

\* The cleanup task's interval keeps firing.
SpecAdaptiveLive == InitAdaptive /\ [][NextAdaptive]_vars /\ WF_vars(dl_cleanup)

\* The tasks are scheduled: the pool's tasks and callers keep taking the steps open to them.
SpecPoolLive == InitPool /\ [][NextPool]_vars /\ WF_vars(PoolSteps)

\* ----------------------------------------------------------- C1 and C2
RECURSIVE SumRange(_, _, _)
SumRange(f, lo, hi) == IF lo > hi THEN 0 ELSE f[lo] + SumRange(f, lo + 1, hi)

\* The number of recorded admissions of client c with a timestamp in [t, t + window_size).
AdmittedIn(c, t) ==
    LET last == IF t + rl_config.window_size - 1 < MaxTime
                THEN t + rl_config.window_size - 1 ELSE MaxTime
    IN SumRange(admitted[c], t, last)

InLockedPart == {t \in Callers : call[t].pc \in {"retain", "test", "push"}}

\* C2: admission is atomic per client.  The pruning, the count test and the push of
\* one call are never interleaved with those of another, a bucket never holds more
\* than max_requests timestamps, and of two calls for one client that run at the
\* same instant when exactly one slot is free, the second one is rejected.
C2_AtomicAdmission ==
    /\ Cardinality(InLockedPart) <= 1
    /\ \A c \in DOMAIN requests : Len(requests[c]) <= rl_config.max_requests
    /\ \A t \in Callers :
          (call[t].pc = "idle" /\ call[t].raced) => call[t].result = "RateLimit"

\* C2's case: two concurrent calls at one instant with one free slot among
\* max_requests = 2; one returned Ok and the other RateLimit.
C2_Witness ==
    /\ rl_config.max_requests = 2
    /\ call["t1"].pc = "idle" /\ call["t1"].result = "Ok"
    /\ call["t2"].pc = "idle" /\ call["t2"].raced /\ call["t2"].result = "RateLimit"

\* ------------------------------------------------------------------ C3
\* C3: starting from Closed, a record_failure that brings the number of failures
\* with no success between them to the threshold T or more leaves the breaker
\* Open with allow_request refusing, and one that leaves the number below T
\* leaves allow_request answering true.
C3_ThresholdOpens ==
    [][ds_record_failure =>
        (ds_streak' >= 0 =>
            IF ds_streak' >= ds_config.failure_threshold
            THEN ds'.state = "Open" /\ ~DS_allows(ds')
            ELSE DS_allows(ds'))]_vars

\* The same statement for the connection breaker of rig-core, where it holds.
CoreThresholdOpens ==
    /\ streak >= breaker.threshold => breaker.state = "Open" /\ ~CB_allow_request(breaker)
    /\ streak < breaker.threshold => CB_allow_request(breaker)

\* ------------------------------------------------------------------ C4
\* C4: the connection's breaker does not stay Open for ever: Connection::send is
\* refused by the breaker only while less than reset_timeout has passed since the
\* breaker opened; from then on a probe send is admitted.
C4_OpenExpires ==
    [][send_refused => now - conn.circuit_breaker.last_failure < ResetTimeout]_vars

\* ------------------------------------------------------------------ C5
\* C5: a Connection::send refused by the open breaker fails with the Send error
\* kind, enqueues no frame and changes neither the metrics nor the breaker.
C5_RefusedWithSend ==
    [][send_refused =>
        /\ last_send'.result = "Err"
        /\ last_send'.kind = "Send"
        /\ UNCHANGED <<outbound, wire, conn>>]_vars

\* ------------------------------------------------------------------ C6
\* C6: with encryption enabled and rotation interval R, what encrypt returned at
\* time t is decrypted (with the nonce it was encrypted with) successfully at
\* every t' with t' - t < 2R, and decrypt fails with Security at every t' with
\* t' - t >= 2R (the rotation task having made every rotation due by t').
C6_DecryptWindow ==
    (/\ sec_config.encrypt_messages
     /\ last_decrypt.result # "none"
     /\ last_decrypt.nonce_ok
     /\ last_decrypt.rotated) =>
        IF last_decrypt.age < 2 * sec_config.key_rotation_interval
        THEN last_decrypt.result = "Ok"
        ELSE last_decrypt.result = "Err" /\ last_decrypt.kind = "Security"

\* ------------------------------------------------------------------ C7
\* C7: the consumer of a StreamReceiver sees the chunks in strictly increasing
\* chunk-id order without gaps: the i-th chunk yielded has id i-1, also when the
\* chunks arrive out of order.
C7_DeliveredInOrder ==
    \A i \in 1..Len(delivered) : delivered[i].chunk_id = i - 1

\* ------------------------------------------------------------------ C8
\* C8: the chunks a StreamSender enqueues carry the ids 0, 1, 2, ... in enqueue
\* order, each one more than the one before, and each carries the sender's
\* stream id.
C8_ChunkIdsContiguous ==
    \A i \in 1..Len(ss_log) :
        /\ ss_log[i].chunk_id = i - 1
        /\ ss_log[i].stream_id = ssender.stream_id

C8_Witness ==
    /\ Len(ss_log) = MaxChunks
    /\ ssender.chunk_id = MaxChunks

\* ------------------------------------------------------------------ C9
\* C9: the chunk with is_last = true is the one with the highest id: once
\* send_chunk(_, true) has been accepted no further chunk is enqueued, so a
\* chunk marked last has no successor and no second chunk is marked last.
C9_LastIsFinal ==
    \A i \in 1..Len(ss_log) : ss_log[i].is_last => i = Len(ss_log)

\* ------------------------------------------------------------------ C10
\* C10: every chunk yielded to the consumer makes the receiver emit exactly one
\* Ack control message with the chunk's stream id and chunk id.
C10_AckPerChunk ==
    [][sr_yield =>
        sr_control' = Append(sr_control,
            [type |-> "Ack", stream_id |-> Head(sr_chan).stream_id,
             chunk_id |-> Head(sr_chan).chunk_id])]_vars

\* ------------------------------------------------------------------ C11
\* The answers of the handlers in `handlers` to `message`, in order: one per
\* handler that answers.
RECURSIVE SomeOutputs(_, _)
SomeOutputs(handlers, message) ==
    IF handlers = << >> THEN << >>
    ELSE (IF Head(handlers).kind = "Some"
          THEN <<[from |-> Head(handlers).id, re |-> message]>> ELSE << >>)
         \o SomeOutputs(Tail(handlers), message)

\* C11: process_message calls the handlers in registration order, each with the
\* same message, and the responses it returns are exactly the answers of the
\* handlers that answered, in that order.
C11_ResponsesInOrder ==
    LET n == Len(ph_call.invoked)
    IN /\ n <= Len(ph_handlers)
       /\ \A i \in 1..n :
            ph_call.invoked[i] = [handler |-> ph_handlers[i].id, message |-> ph_call.message]
       /\ ph_call.responses = SomeOutputs(SubSeq(ph_handlers, 1, n), ph_call.message)
       /\ ph_call.result = "Ok" => n = ph_call.next - 1

C11_Witness ==
    /\ ph_call.result = "Ok"
    /\ Len(ph_call.invoked) = 3
    /\ Len(ph_call.responses) = 2
    /\ ph_handlers[2].kind = "None"
    /\ ph_handlers[1].id # ph_handlers[3].id

\* ------------------------------------------------------------------ C12
\* C12: the frames written to the transport are the frames Connection::send
\* enqueued, in enqueue order, none twice and none skipped: what was written is
\* always a prefix of what was enqueued, and while the writer task runs the rest
\* is exactly what waits in the channel.
C12_WrittenInEnqueueOrder ==
    /\ Len(wire) <= Len(enqueued)
    /\ wire = SubSeq(enqueued, 1, Len(wire))
    /\ rx_open => enqueued = wire \o outbound

C12_Witness ==
    /\ rx_open
    /\ Len(wire) >= 2
    /\ Len(outbound) >= 1
    /\ Len(enqueued) >= 3

\* ------------------------------------------------------------------ C13
\* C13: every peer id in the pool has exactly one live reader task and exactly
\* one live writer task, and a peer id without a live reader/writer pair is not
\* in the pool.
LiveReaders(id) == {r \in readers : r.id = id}
LiveWriters(id) == {w \in writers : w.id = id}

C13_OnePairPerPeer ==
    \A id \in PeerIds :
        /\ pool[id] # NoConn =>
              Cardinality(LiveReaders(id)) = 1 /\ Cardinality(LiveWriters(id)) = 1
        /\ (LiveReaders(id) = {} \/ LiveWriters(id) = {}) => pool[id] = NoConn

\* ------------------------------------------------------------------ C14
\* C14: once the reader task of a connection has stopped, the connection's writer
\* task eventually stops too and the connection, while it is the one in the
\* pool, becomes Disconnected.
C14_ReaderStopPropagates ==
    \A t \in Tasks :
        (t \in spawned /\ t \notin readers) ~>
            (/\ t \notin writers
             /\ pool[t.id].gen = t.gen => pool[t.id].status = "Disconnected")

\* ------------------------------------------------------------------ C15
\* C15: a text frame that does not decode as a Message ends the reader task that
\* received it.
C15_UndecodableStopsReader ==
    [][\A r \in Tasks : reader_undecodable(r) => r \notin readers']_vars

\* ------------------------------------------------------------------ C16
\* C16: a connection that has had no Heartbeat for CONNECTION_TIMEOUT or more is
\* not alive, and by one heartbeat interval later its status has left Connected
\* for Reconnecting with attempts = 1.
C16_SilentConnectionReconnects ==
    \A id \in PeerIds :
        pool[id] # NoConn =>
            /\ now - pool[id].last_heartbeat >= CONNECTION_TIMEOUT => ~is_alive(pool[id])
            /\ now - pool[id].last_heartbeat > CONNECTION_TIMEOUT =>
                    pool[id].status = "Reconnecting1"

\* ------------------------------------------------------------------ C17
\* C17: try_reconnect grants at most max_reconnects attempts between two resets:
\* reconnect_attempts never exceeds max_reconnects, and a call that finds the
\* counter at max_reconnects returns false without sleeping and without counting.
C17_AttemptsBounded ==
    /\ rconn.reconnect_attempts <= rconn.max_reconnects
    /\ rconn.granted <= rconn.max_reconnects
    /\ rconn.granted = rconn.reconnect_attempts
    /\ rconn.pc = "sleeping" => rconn.reconnect_attempts < rconn.max_reconnects
    /\ rconn.result = "false" =>
            rconn.pc = "idle" /\ rconn.reconnect_attempts = rconn.max_reconnects

C17_Witness ==
    /\ rconn.max_reconnects = 2
    /\ rconn.reconnect_attempts = 2
    /\ rconn.result = "false"

\* ------------------------------------------------------------------ C18
\* C18: in one HalfOpen episode allow_request answers true at most
\* half_open_max_requests times, however the allow_request calls interleave with
\* the recovery task's transition from Open to HalfOpen.
C18_ProbesBounded ==
    dt_episode.admitted <= ds_config.half_open_max_requests

C20_ClosesAtThreshold ==
    [][(task_record_success /\ ds.state = "HalfOpen") =>
            /\ ds'.state = "Closed" <=> dt_episode'.successes >= ds_config.success_threshold
            /\ ds'.state # "Closed" => ds'.state = "HalfOpen"
            /\ ds'.state = "Closed" =>
                    ds'.failures = << >> /\ ds'.half_open_successes = 0]_vars

\* ------------------------------------------------------------------ C21
\* C21: a Closed breaker opens only on a record_failure that makes
\* failure_threshold failures with no success between them, and a record_success
\* while Closed clears the failures counted so far.
C21_OpensOnConsecutiveOnly ==
    [][/\ (ds_record_failure /\ ds.state = "Closed" /\ ds'.state = "Open") =>
            ds_streak' >= ds_config.failure_threshold
       /\ (ds_record_success /\ ds.state = "Closed") => ds'.failures = << >>]_vars

\* ------------------------------------------------------------------ C22
\* C22: a rejected check_request leaves every bucket as it was and happens only
\* when max_requests admissions of the client are younger than window_size; a check
\* made when the client's oldest counted admission is at least window_size old
\* finds room after pruning and is admitted.
C22_RejectedAddsNothing ==
    [][\A t \in Callers :
        LET c == call[t].client_id
            counted == IF c \in DOMAIN requests THEN requests[c] ELSE << >>
        IN /\ check_request_reject(t) =>
                /\ requests' = requests
                /\ Len(counted) >= rl_config.max_requests
                /\ \A i \in 1..Len(counted) :
                        call[t].now - counted[i] < rl_config.window_size
           /\ (/\ check_request_retain(t)
               /\ counted # << >>
               /\ call[t].now - Head(counted) >= rl_config.window_size) =>
                    Len(requests'[c]) < rl_config.max_requests]_vars

\* C22's case: a client was rejected and a later check of the same client, made
\* at a later instant, has been admitted.
C22_Witness ==
    /\ call["t1"].result = "Ok"
    /\ call["t1"].course = "readmitted"
    /\ now > 0
    /\ "c1" \in DOMAIN requests
    /\ requests["c1"] = <<now>>

\* ------------------------------------------------------------------ C25
\* C25: next_node returns a node that is registered and healthy at the call, and
\* fails with Connection exactly when no registered node is healthy, for every
\* strategy and after any add_node, remove_node and update_health calls.  The
\* record of the last call is kept only while the nodes and their health are
\* those of the call.
C25_HealthyOrConnection ==
    LET healthy == {n \in DOMAIN lb_nodes : lb_nodes[n].is_healthy}
    IN lb_last.result # "none" =>
            /\ lb_last.result = "Connection" <=> healthy = {}
            /\ lb_last.result # "Connection" => lb_last.result \in healthy

\* C25's case: with an unhealthy node and a healthy node registered, and after a
\* removal, a strategy that weighs connections has returned a node; and the
\* same for a failure.
C25_Witness ==
    /\ lb_config.strategy = "LeastLoad"
    /\ lb_last.result \in Nodes
    /\ \E n \in DOMAIN lb_nodes : ~lb_nodes[n].is_healthy
    /\ Len(lb_inserted) = 2
    /\ lb_inserted # lb_order

\* ------------------------------------------------------------------ C26
\* The node after n in the cyclic order of seq.
CyclicNext(seq, n) ==
    LET i == CHOOSE j \in 1..Len(seq) : seq[j] = n
    IN seq[(i % Len(seq)) + 1]

\* C26: under RoundRobin, while the registered nodes and their health do not
\* change, each next_node returns the healthy node that follows the previous
\* result in the order the nodes were added.
C26_RoundRobinInsertionOrder ==
    (/\ lb_config.strategy = "RoundRobin"
     /\ lb_last.prev \in Nodes
     /\ lb_last.result \in Nodes) =>
        lb_last.result = CyclicNext(Healthy(lb_nodes, lb_inserted), lb_last.prev)

\* The same with the order in which the map is iterated, which holds.
RoundRobinIterationOrder ==
    (/\ lb_config.strategy = "RoundRobin"
     /\ lb_last.prev \in Nodes
     /\ lb_last.result \in Nodes) =>
        lb_last.result = CyclicNext(Healthy(lb_nodes, lb_order), lb_last.prev)

\* ------------------------------------------------------------------ C23
\* C23: an add_connection that fails, by the limiter's rejection, by the
\* balancer having no healthy node or by the connect, leaves the pool's mapping
\* as it was and spawns no reader and no writer.
C23_FailedAddChangesNothing ==
    (ad_last.op = "add_connection" /\ ad_last.result # "Ok") => ~ad_last.changed

\* C23's case: with a connection in the pool and its tasks running, an
\* add_connection has been rejected by the limiter.
C23_Witness ==
    /\ ad_last.op = "add_connection"
    /\ ad_last.result = "RateLimit"
    /\ \E id \in PeerIds : pool[id] # NoConn
    /\ readers # {}
    /\ writers # {}

\* ------------------------------------------------------------------ C24
\* C24: with a rate limiter configured, add_secure_connection for a client that
\* is over its limit returns RateLimit and inserts nothing.
C24_SecureAddIsRateLimited ==
    (ad_last.op = "add_secure_connection" /\ ad_last.over_limit) =>
        /\ ad_last.result = "RateLimit"
        /\ ~ad_last.changed

\* ------------------------------------------------------------------ C27
\* C27: authenticate returns Ok exactly when the credential presented has the
\* variant of the configured method and, for Token and PublicKey, the same
\* contents; otherwise it fails with Security.
C27_AuthenticateIff ==
    auth_last # NoAuth =>
        LET c == auth_last.credentials
            accepted ==
                /\ c.variant = auth_method.variant
                /\ c.variant \in {"Token", "PublicKey"} => c.contents = auth_method.contents
        IN /\ auth_last.result = "Ok" <=> accepted
           /\ auth_last.result \in {"Ok", "Security"}

\* The same for the variants other than Custom, which holds.
AuthenticateIffButCustom ==
    (auth_last # NoAuth /\ auth_method.variant # "Custom") =>
        LET c == auth_last.credentials
            accepted ==
                /\ c.variant = auth_method.variant
                /\ c.variant \in {"Token", "PublicKey"} => c.contents = auth_method.contents
        IN /\ auth_last.result = "Ok" <=> accepted
           /\ auth_last.result \in {"Ok", "Security"}

\* ------------------------------------------------------------------ C28
\* C28: the chunks enqueued by send_chunk and not yet taken never number more
\* than the sender's buffer size; while the channel is full and its receiving
\* end held, a send_chunk in progress stays as it is, holding its chunk: it
\* returns no error and the chunk is not lost.
C28_SendBlocksWhenFull ==
    [][/\ Len(ss_chan') <= st_config.sender_buffer
       /\ (/\ ssender.pc = "sending"
           /\ Len(ss_chan) = st_config.sender_buffer
           /\ ss_rx_open) => ssender' = ssender
       /\ send_chunk_enqueue => ss_chan' = Append(ss_chan, ssender.chunk)]_vars

\* C28's case: send_chunk is suspended on a full channel of two chunks.
C28_Witness ==
    /\ ssender.pc = "sending"
    /\ st_config.sender_buffer = 2
    /\ Len(ss_chan) = 2
    /\ ss_rx_open
    /\ ssender.chunk.chunk_id = 2

\* ------------------------------------------------------------------ C29
\* C29: a send_chunk that finds the receiving end dropped fails with Stream,
\* and the consumer's read that finds the sender dropped yields a Stream error.
C29_DropIsStreamFailure ==
    [][/\ send_chunk_fail => ssender'.result = "Stream"
       /\ sr_end => sreceiver'.last_read = "Stream"]_vars

\* ------------------------------------------------------------------ C30
\* C30: send_message calls validate_message, process_message and the
\* connection's send in this order, each after the success of the one before;
\* when validation fails process_message is not called and nothing is enqueued;
\* when processing returns a message and the pool holds no connection for the
\* recipient, the call fails with Connection and enqueues nothing.
C30_ValidateProcessSend ==
    ag_last # NoSendMessage =>
        /\ \E n \in 1..3 :
                ag_last.calls = SubSeq(<<"validate_message", "process_message", "send">>, 1, n)
        /\ ag_last.validate # "Ok" =>
                /\ ag_last.calls = <<"validate_message">>
                /\ ~ag_last.enqueued
        /\ (ag_last.validate = "Ok" /\ ag_last.process = "Some" /\ ag_last.to \notin ag_pool) =>
                /\ ag_last.result = "Connection"
                /\ ~ag_last.enqueued

\* The same with the connection looked up under the agent's own id, which holds.
SendNeedsOwnConnection ==
    ag_last # NoSendMessage =>
        /\ \E n \in 1..3 :
                ag_last.calls = SubSeq(<<"validate_message", "process_message", "send">>, 1, n)
        /\ ag_last.validate # "Ok" =>
                /\ ag_last.calls = <<"validate_message">>
                /\ ~ag_last.enqueued
        /\ (ag_last.validate = "Ok" /\ ag_last.process = "Some" /\ AgentId \notin ag_pool) =>
                /\ ag_last.result = "Connection"
                /\ ~ag_last.enqueued

\* ------------------------------------------------------------------ C31
\* C31: on a connection, messages_sent equals the number of send calls that
\* enqueued a frame.  A send that enqueues raises messages_sent by exactly one
\* and records a breaker success (the failure count is cleared, the breaker is
\* Closed); a send whose enqueue fails leaves every metric as it was and records
\* exactly one breaker failure; and no counter of the metrics ever decreases.
C31_SentCountsEnqueued ==
    [][/\ conn'.metrics.messages_sent = Len(enqueued')
       /\ send_enqueued =>
            /\ conn'.metrics.messages_sent = conn.metrics.messages_sent + 1
            /\ conn'.circuit_breaker = CB_record_success(conn.circuit_breaker)
            /\ conn'.circuit_breaker.failure_count = 0
       /\ send_failed =>
            /\ conn'.metrics = conn.metrics
            /\ conn'.circuit_breaker.failure_count = conn.circuit_breaker.failure_count + 1
            /\ Len(enqueued') = Len(enqueued)
       /\ conn'.metrics.messages_sent >= conn.metrics.messages_sent
       /\ conn'.metrics.messages_received >= conn.metrics.messages_received
       /\ conn'.metrics.errors >= conn.metrics.errors]_vars

\* Two sends were enqueued and counted, and a later send failed on the closed
\* channel and was recorded by the breaker.
C31_Witness ==
    /\ conn.metrics.messages_sent = 2
    /\ Len(enqueued) = 2
    /\ last_send.why = "channel_closed"
    /\ conn.circuit_breaker.failure_count >= 1

\* ------------------------------------------------------------------ C32
\* C32: with adaptive limiting enabled the effective per-minute limit stays
\* within [1, requests_per_minute] under every interleaving of record_error
\* calls and cleanup rounds; each record_error sets it to
\* max(1, floor(0.8 * limit)), and a cleanup round never raises it above
\* requests_per_minute.
C32_AdaptiveLimitInRange ==
    [][dl_config.adaptive_limiting =>
        /\ adaptive_limit' >= 1
        /\ adaptive_limit' <= dl_config.requests_per_minute
        /\ (\E error \in DLErrors : dl_record_error(error)) =>
              IF 8 * adaptive_limit < 10
              THEN adaptive_limit' = 1
              ELSE /\ 10 * adaptive_limit' <= 8 * adaptive_limit
                   /\ 8 * adaptive_limit < 10 * (adaptive_limit' + 1)
        /\ dl_cleanup =>
              /\ adaptive_limit' >= adaptive_limit
              /\ adaptive_limit' <= dl_config.requests_per_minute]_vars

\* Reported errors have lowered the limit to its floor of 1 under a ceiling of
\* at least 10.
C32_Witness ==
    /\ dl_config.adaptive_limiting
    /\ dl_config.requests_per_minute >= 10
    /\ adaptive_limit = 1
    /\ last_error # NoError

\* ------------------------------------------------------------------ C37
\* C37: with adaptive limiting enabled, if no further errors are reported then
\* the cleanup rounds eventually raise the effective per-minute limit back to
\* requests_per_minute, from every value the limit can reach (including 1).
C37_LimitRecovers ==
    (dl_config.adaptive_limiting /\ <>[][~(\E error \in DLErrors : dl_record_error(error))]_vars)
        => <>[](adaptive_limit = dl_config.requests_per_minute)

\* What does hold: from 10 on, the cleanup rounds raise the limit to the ceiling.
LimitRecoversFromTen ==
    (/\ dl_config.adaptive_limiting
     /\ <>[][~(\E error \in DLErrors : dl_record_error(error))]_vars
     /\ <>[](adaptive_limit >= 10))
        => <>[](adaptive_limit = dl_config.requests_per_minute)

\* ------------------------------------------------------------------ C33
\* C33: the request slots of the deepseek RateLimiter held at the same time never
\* exceed max_parallel_requests: acquire fails while that many RequestGuards are
\* outstanding and succeeds again after one of them has been dropped, also when
\* several clients run check_request and acquire concurrently.
C33_SlotsBounded ==
    /\ Outstanding <= dl_config.max_parallel_requests
    /\ dl_last.op = "acquire" =>
          (dl_last.result = "Ok" <=> dl_last.outstanding < dl_config.max_parallel_requests)

\* Nor are the slots bounded for clients that acquire only after check_request
\* has answered Ok: two of them may both be answered before either acquires.
SlotsBoundedWhenChecked ==
    dl_last.all_checked => Outstanding <= dl_config.max_parallel_requests

\* What does hold: check_request refuses while active_requests has reached
\* max_parallel_requests.
CheckRequestSeesActive ==
    [][\A c \in DLClients, token_count \in TokenCounts :
          dl_check_request(c, token_count)
            /\ active_requests >= dl_config.max_parallel_requests
          => dl_last'.result = "RateLimitExceeded"]_vars

\* ------------------------------------------------------------------ C34
\* C34: a decrypt call that runs concurrently with a key rotation always
\* completes: the rotation task (previous-key lock, then current-key lock) and
\* decrypt (current-key lock held while taking the previous-key lock) never
\* block each other for ever.
C34_DecryptCompletes ==
    \A d \in KLCallers : (kl_decrypt[d].pc # "idle") ~> (kl_decrypt[d].pc = "idle")

\* The same as a state property: the rotation task never waits for the lock a
\* decrypt call holds while that call waits for the lock the task holds.
NoLockCycle ==
    ~(/\ kl_rotation = "lock_current"
      /\ prev_writer
      /\ \E d \in KLCallers : kl_decrypt[d].pc = "previous")

\* ------------------------------------------------------------------ C35
\* C35: a deepseek CircuitBreaker that has reached HalfOpen and whose protected
\* service succeeds from then on eventually returns to Closed when it is driven
\* only through execute, for every configuration, also with success_threshold
\* greater than half_open_max_requests: once the service has stopped failing,
\* the breaker does not stay HalfOpen.
C35_HalfOpenCloses ==
    <>[][~ExecuteFails]_vars => ~<>[](ds.state = "HalfOpen")

\* What does hold: with success_threshold <= half_open_max_requests the breaker
\* leaves HalfOpen once the service has stopped failing.
HalfOpenClosesWithEnoughProbes ==
    (/\ ds_config.success_threshold <= ds_config.half_open_max_requests
     /\ <>[][~ExecuteFails]_vars)
        => ~<>[](ds.state = "HalfOpen")

\* ------------------------------------------------------------------ C36
\* C36: closing a deepseek CircuitBreaker from HalfOpen takes success_threshold
\* successes recorded in the current HalfOpen episode; the successes of an
\* earlier episode that ended with a trip back to Open are not counted.
C36_ClosingCountsThisEpisode ==
    [][(task_record_success /\ ds.state = "HalfOpen" /\ ds'.state = "Closed")
            => dt_episode'.successes >= ds_config.success_threshold]_vars

\* ------------------------------------------------------------------ C38
\* C38: if a handler returns an error, process_message returns that single
\* error, returns none of the responses produced by earlier handlers, and does
\* not invoke any later handler.
C38_ErrorEndsProcessing ==
    \A i \in 1..Len(ph_call.invoked) :
        ph_handlers[i].kind = "Err" =>
            /\ Len(ph_call.invoked) = i
            /\ ph_call.pc = "done"
            /\ ph_call.result = "Err"
            /\ ph_call.returned = [responses |-> << >>, error |-> ph_handlers[i].id]

\* The second of three handlers failed after the first had answered.
C38_Witness ==
    /\ ph_call.result = "Err"
    /\ Len(ph_handlers) = 3
    /\ Len(ph_call.invoked) = 2
    /\ ph_handlers[1].kind = "Some"
    /\ ph_call.responses # << >>
    /\ ph_handlers[1].id # ph_handlers[2].id

\* ------------------------------------------------------------------ C39
\* C39: in MeapServer every message sent by a registered agent and addressed to
\* a registered agent is eventually written to the recipient's socket, and
\* forwarding it never blocks the sending connection's handler for ever, for
\* any number of forwarded messages.
C39_ForwardedIsWritten ==
    /\ \A k \in ServerConns : (sv_channel[k] > 0) ~> (sv_socket[k] > 0 \/ ~sv_handler[k].open)
    /\ \A k \in ServerConns : (sv_handler[k].pc = "send") ~> (sv_handler[k].pc = "recv")

\* Forwarding alone: a handler that waits in send goes on.
ForwardingNeverBlocks ==
    \A k \in ServerConns : (sv_handler[k].pc = "send") ~> (sv_handler[k].pc = "recv")

\* A handler waits to put a frame into a full channel.
SendNeverWaitsOnFull ==
    \A k \in ServerConns :
        sv_handler[k].pc = "send" =>
            LET target == sv_connections[sv_handler[k].message.to]
            IN sv_handler[target].open => sv_channel[target] < ChannelCapacity

\* ------------------------------------------------------------------ C40
\* C40: for non-empty data and a chunk size of at least 1, feeding the messages
\* of one create_stream_message call to a fresh handler's process_stream_chunk in
\* any arrival order returns None until the last missing chunk arrives and then
\* returns exactly the original data; this holds for the first call and for
\* every later call on the same sending StreamHandler.
C40_ReassemblesInAnyOrder ==
    /\ sh_last.kind = "None" => sh_pending # {}
    /\ sh_last.kind = "Some" => sh_pending = {} /\ sh_last.data = sh_data
    /\ (sh_calls > 0 /\ sh_pending = {}) => sh_last = [kind |-> "Some", data |-> sh_data]

\* What does hold: the same for the first call on the sending handler.
FirstCallReassembles ==
    sh_calls = 1 =>
        /\ sh_last.kind = "None" => sh_pending # {}
        /\ sh_last.kind = "Some" => sh_pending = {} /\ sh_last.data = sh_data
        /\ sh_pending = {} => sh_last = [kind |-> "Some", data |-> sh_data]

====
